---- MODULE Spec2Model ----
(***************************************************************************)
(* Request compilation pipeline of api_v1: the query parser                *)
(* (api_handler/queries.py), the structure formatter                       *)
(* (api_handler/structure.py), the entry point (api.py), the database      *)
(* stage (api_handler/database.py) and the response finisher               *)
(* (api_handler/response.py).                                              *)
(*                                                                         *)
(* A Python str is a sequence of one-character strings, so that the        *)
(* regular expressions of the parser act on characters as they do in the   *)
(* source.  An Optional value is <<>> (None) or <<v>>.                     *)
(***************************************************************************)
EXTENDS Integers, Sequences, FiniteSets, TLC

VARIABLES
    pc,         \* position of the caller: "idle", "received", "handled", "finished", "constructed"
    req,        \* the request in hand: method, query text, req.params, release timestamp
    tokens,     \* the QueryParser object built for the request
    handled,    \* what api_handler returned (code, response, formatter) and what it raised on the way
    response,   \* what the finisher (format_response.inner) produced, or the error that escaped it
    db,         \* database activity of the request: connections opened, statements executed
    called      \* result of a direct call of tokens.structure() / tokens.formatter()

vars == <<pc, req, tokens, handled, response, db, called>>

---------------------------------------------------------------------------
(* Characters and str methods *)

LowerSeq == <<"a","b","c","d","e","f","g","h","i","j","k","l","m",
              "n","o","p","q","r","s","t","u","v","w","x","y","z">>
UpperSeq == <<"A","B","C","D","E","F","G","H","I","J","K","L","M",
              "N","O","P","Q","R","S","T","U","V","W","X","Y","Z">>
DigitSeq == <<"0","1","2","3","4","5","6","7","8","9">>

Range(f) == {f[i] : i \in DOMAIN f}

LowerChars == Range(LowerSeq)
UpperChars == Range(UpperSeq)
Letters    == LowerChars \cup UpperChars
Digits     == Range(DigitSeq)
Whitespace == {" "}

None == <<>>
Some(v) == <<v>>

\* a local name: Body with its name bound to the value v
Bind(v, Body(_)) == Body(v)

Min(S) == CHOOSE m \in S : \A n \in S : m <= n

\* index of a character in one of the alphabet sequences
IndexIn(seq, c) == CHOOSE i \in DOMAIN seq : seq[i] = c

lower_char(c) == IF c \in UpperChars THEN LowerSeq[IndexIn(UpperSeq, c)] ELSE c
upper_char(c) == IF c \in LowerChars THEN UpperSeq[IndexIn(LowerSeq, c)] ELSE c

\* str.lower, str.upper
str_lower(s) == [i \in 1..Len(s) |-> lower_char(s[i])]
str_upper(s) == [i \in 1..Len(s) |-> upper_char(s[i])]

DigitValue(c) == IndexIn(DigitSeq, c) - 1

\* the literal lit stands in s at position i
MatchAt(s, i, lit) ==
    /\ i >= 1
    /\ i + Len(lit) - 1 <= Len(s)
    /\ \A k \in 1..Len(lit) : s[i + k - 1] = lit[k]

\* the same under re.IGNORECASE
MatchAtCI(s, i, lit) ==
    /\ i >= 1
    /\ i + Len(lit) - 1 <= Len(s)
    /\ \A k \in 1..Len(lit) : lower_char(s[i + k - 1]) = lower_char(lit[k])

\* length of the longest run of characters of class C that starts at i, at most max
RECURSIVE Run(_, _, _, _)
Run(s, i, C, max) ==
    IF max = 0 \/ i > Len(s) \/ s[i] \notin C THEN 0
    ELSE 1 + Run(s, i + 1, C, max - 1)

\* str.find, 1-based; 0 when lit does not occur at or after from
Find(s, lit, from) ==
    LET hits == {i \in from..(Len(s) - Len(lit) + 1) : MatchAt(s, i, lit)}
    IN  IF hits = {} THEN 0 ELSE Min(hits)

\* lit in s
Contains(s, lit) == Find(s, lit, 1) # 0

\* s.replace(old, str()): every non-overlapping occurrence, left to right
RECURSIVE Remove(_, _)
Remove(s, old) ==
    IF old = <<>> THEN s
    ELSE LET i == Find(s, old, 1)
         IN  IF i = 0 THEN s
             ELSE SubSeq(s, 1, i - 1) \o Remove(SubSeq(s, i + Len(old), Len(s)), old)

\* s.split(sep)[0]
SplitFirst(s, sep) ==
    LET i == Find(s, sep, 1)
    IN  IF i = 0 THEN s ELSE SubSeq(s, 1, i - 1)

\* s.split(sep)
RECURSIVE Split(_, _)
Split(s, sep) ==
    Bind(Find(s, sep, 1), LAMBDA i :
        IF i = 0 THEN <<s>>
        ELSE <<SubSeq(s, 1, i - 1)>> \o Split(SubSeq(s, i + Len(sep), Len(s)), sep))

\* str.strip() and str.strip(chars)
RECURSIVE LStrip(_, _)
LStrip(s, C) == IF s # <<>> /\ Head(s) \in C THEN LStrip(Tail(s), C) ELSE s
RECURSIVE RStrip(_, _)
RStrip(s, C) ==
    IF s # <<>> /\ s[Len(s)] \in C THEN RStrip(SubSeq(s, 1, Len(s) - 1), C) ELSE s
Strip(s, C) == RStrip(LStrip(s, C), C)

\* urllib.parse.unquote_plus / unquote on text without percent escapes:
\* unquote_plus turns "+" into a space, unquote changes nothing
unquote_plus(s) == [i \in 1..Len(s) |-> IF s[i] = "+" THEN " " ELSE s[i]]
unquote(s) == s

\* value of a run of decimal digits
RECURSIVE DigitsValue(_)
DigitsValue(s) ==
    IF s = <<>> THEN 0
    ELSE 10 * DigitsValue(SubSeq(s, 1, Len(s) - 1)) + DigitValue(s[Len(s)])

\* str(n) for n >= 0
RECURSIVE IntToStr(_)
IntToStr(n) ==
    IF n < 10 THEN <<DigitSeq[n + 1]>>
    ELSE IntToStr(n \div 10) \o <<DigitSeq[(n % 10) + 1]>>

AllIn(s, C) == \A i \in 1..Len(s) : s[i] \in C

---------------------------------------------------------------------------
(* Python values: a tagged record; t is the Python type *)

PyStr(s)      == [t |-> "str",   s |-> s,    n |-> 0, e |-> 0]
PyInt(n)      == [t |-> "int",   s |-> <<>>, n |-> n, e |-> 0]
\* the float n / 10^e
PyFloat(n, e) == [t |-> "float", s |-> <<>>, n |-> n, e |-> e]
\* datetime.date(y, m, d)
PyDate(y, m, d) == [t |-> "date", s |-> <<>>, n |-> y * 10000 + m * 100 + d, e |-> 0]

\* result of a call: what it raised ("" when it returned) and what it returned
Returned(v) == [raised |-> "", value |-> v]
Raised(kind) == [raised |-> kind, value |-> PyStr(<<>>)]

---------------------------------------------------------------------------
(* constants.py *)

MAX_ITEMS_PER_RESPONSE == 2500
MAX_QUERY_PARAMS == 5
MAX_STRUCTURE_LENGTH == 8

REPORT_DATE_PARAM_NAME == <<"r","e","l","e","a","s","e","T","i","m","e","s","t","a","m","p">>
DATE_PARAM_NAME == <<"d","a","t","e">>
DATE_PARAMS == {REPORT_DATE_PARAM_NAME, DATE_PARAM_NAME}

RESPONSE_TYPE ==
    [xml  |-> "application/vnd.PHE-COVID19.v1+json; charset=utf-8",
     json |-> "application/vnd.PHE-COVID19.v1+json; charset=utf-8",
     csv  |-> "text/csv; charset=utf-8"]

\* The metric catalog (production branch).  The entries kept here stand for
\* the 250 of the source: every semantic type of the catalog occurs.
DATA_TYPES ==
       (<<"h","a","s","h">> :> "str")
    @@ (<<"a","r","e","a","T","y","p","e">> :> "str")
    @@ (<<"d","a","t","e">> :> "datetime")
    @@ (<<"a","r","e","a","N","a","m","e">> :> "str")
    @@ (<<"a","r","e","a","N","a","m","e","L","o","w","e","r">> :> "str")
    @@ (<<"a","r","e","a","C","o","d","e">> :> "str")
    @@ (<<"h","o","s","p","i","t","a","l","C","a","s","e","s">> :> "int")
    @@ (<<"n","e","w","A","d","m","i","s","s","i","o","n","s">> :> "int")
    @@ (<<"n","e","w","C","a","s","e","s","B","y","P","u","b","l","i","s","h","D","a","t","e">> :> "int")
    @@ (<<"m","a","l","e","C","a","s","e","s">> :> "list")
    @@ (<<"c","u","m","C","a","s","e","s","B","y","P","u","b","l","i","s","h","D","a","t","e","R","a","t","e">> :> "float")
    @@ (<<"r","e","l","e","a","s","e">> :> "datetime")

\* TypePatterns[dtype].search(value); the keys are str, int, float, datetime
TypePatternKeys == {"str", "int", "float", "datetime"}

IsDatePatternAt(v, i) ==
    /\ i + 9 <= Len(v)
    /\ \A k \in {0, 1, 2, 3, 5, 6, 8, 9} : v[i + k] \in Digits
    /\ v[i + 4] = "-"
    /\ v[i + 7] = "-"

TypePatterns(dtype, value) ==
    CASE dtype = "str"      -> \E i \in 1..Len(value) : value[i] \in Letters
      [] dtype = "int"      -> \E i \in 1..Len(value) : value[i] \in Digits
      [] dtype = "float"    -> \E i \in 1..Len(value) : value[i] \in Digits \cup {"."}
      [] dtype = "datetime" -> \E i \in 1..Len(value) : IsDatePatternAt(value, i)

AREA_TYPES ==
       (<<"u","t","l","a">> :> <<"u","t","l","a">>)
    @@ (<<"l","t","l","a">> :> <<"l","t","l","a">>)
    @@ (<<"r","e","g","i","o","n">> :> <<"r","e","g","i","o","n">>)
    @@ (<<"n","h","s","r","e","g","i","o","n">> :> <<"n","h","s","R","e","g","i","o","n">>)
    @@ (<<"o","v","e","r","v","i","e","w">> :> <<"o","v","e","r","v","i","e","w">>)
    @@ (<<"n","a","t","i","o","n">> :> <<"n","a","t","i","o","n">>)
    @@ (<<"n","h","s","t","r","u","s","t">> :> <<"n","h","s","T","r","u","s","t">>)

\* RESTRICTED_PARAMETER_VALUES is the empty dict: .get(name) is None for every name
RESTRICTED_PARAMETER_VALUES == [name \in {} |-> {}]

RestrictedRefuses(name, value) ==
    /\ name \in DOMAIN RESTRICTED_PARAMETER_VALUES
    /\ str_lower(value) \notin RESTRICTED_PARAMETER_VALUES[name]

\* datetime.strptime(text, "%Y-%m-%d").date(): year of four digits, month and
\* day of one or two digits, a day the month has
IsLeap(y) == (y % 4 = 0 /\ y % 100 # 0) \/ y % 400 = 0
DaysIn(y, m) ==
    IF m = 2 THEN (IF IsLeap(y) THEN 29 ELSE 28)
    ELSE IF m \in {4, 6, 9, 11} THEN 30 ELSE 31

strptime_date(text) ==
    LET d1 == Find(text, <<"-">>, 1)
        d2 == IF d1 = 0 THEN 0 ELSE Find(text, <<"-">>, d1 + 1)
        ys == SubSeq(text, 1, d1 - 1)
        ms == SubSeq(text, d1 + 1, d2 - 1)
        ds == SubSeq(text, d2 + 1, Len(text))
        wellFormed ==
            /\ d1 # 0 /\ d2 # 0
            /\ Len(ys) = 4 /\ AllIn(ys, Digits)
            /\ Len(ms) \in {1, 2} /\ AllIn(ms, Digits)
            /\ Len(ds) \in {1, 2} /\ AllIn(ds, Digits)
        y == DigitsValue(ys)
        m == DigitsValue(ms)
        d == DigitsValue(ds)
    IN  IF wellFormed /\ y >= 1 /\ m \in 1..12 /\ d \in 1..DaysIn(y, m)
        THEN Returned(PyDate(y, m, d))
        ELSE Raised("ValueError")

\* STRING_TRANSFORMATION[name].value_fn, DEFAULT when the name has no entry
value_fn(name, value) ==
    CASE name = <<"a","r","e","a","N","a","m","e">> -> Returned(PyStr(str_lower(value.s)))
      [] name = <<"a","r","e","a","T","y","p","e">> ->
            IF str_lower(value.s) \in DOMAIN AREA_TYPES
            THEN Returned(PyStr(AREA_TYPES[str_lower(value.s)]))
            ELSE Raised("KeyError")
      [] name = <<"d","a","t","e">> -> strptime_date(SplitFirst(value.s, <<"T">>))
      [] name = <<"a","r","e","a","C","o","d","e">> -> Returned(PyStr(str_upper(value.s)))
      [] OTHER -> Returned(value)

\* STRING_TRANSFORMATION[name].param_fn
param_fn(name) ==
    CASE name = <<"a","r","e","a","N","a","m","e">> -> <<"L","O","W","E","R","(","a","r","e","a","_","n","a","m","e",")">>
      [] name = <<"a","r","e","a","T","y","p","e">> -> <<"a","r","e","a","_","t","y","p","e">>
      [] name = <<"a","r","e","a","C","o","d","e">> -> <<"a","r","e","a","_","c","o","d","e">>
      [] OTHER -> name

\* STRING_TRANSFORMATION[name].input_argument: the identity, or "{}".format
input_argument(name, a) == a

---------------------------------------------------------------------------
(* exceptions.py: the code attribute of every APIException subclass *)

APIExceptionCode ==
    [InvalidQueryParameter     |-> 422,
     ExceedsMaxParameters      |-> 413,
     InvalidStructureParameter |-> 404,
     IncorrectQueryValueType   |-> 406,
     ValueNotAcceptable        |-> 417,
     InvalidStructure          |-> 417,
     InvalidQuery              |-> 412,
     RequestTooLarge           |-> 413,
     StructureTooLarge         |-> 413,
     NotAvailable              |-> 204,
     UnauthorisedRequest       |-> 401,
     InvalidFormat             |-> 400,
     BadPagination             |-> 400,
     MissingFilter             |-> 400]

APIException == DOMAIN APIExceptionCode

\* http.HTTPStatus(code).phrase for the codes above and for 500
HTTPStatusPhrase(code) ==
    CASE code = 200 -> "OK"
      [] code = 204 -> "No Content"
      [] code = 400 -> "Bad Request"
      [] code = 401 -> "Unauthorized"
      [] code = 404 -> "Not Found"
      [] code = 406 -> "Not Acceptable"
      [] code = 412 -> "Precondition Failed"
      [] code = 413 -> "Request Entity Too Large"
      [] code = 417 -> "Expectation Failed"
      [] code = 422 -> "Unprocessable Entity"
      [] code = 500 -> "Internal Server Error"

---------------------------------------------------------------------------
(* queries.py: convert_value_type *)

\* int(value): surrounding whitespace stripped, an optional sign, decimal digits
int_parse(value) ==
    LET v == Strip(value, Whitespace)
        neg == v # <<>> /\ Head(v) = "-"
        ds == IF neg THEN Tail(v) ELSE v
    IN  IF ds # <<>> /\ AllIn(ds, Digits)
        THEN Returned(PyInt(IF neg THEN 0 - DigitsValue(ds) ELSE DigitsValue(ds)))
        ELSE Raised("ValueError")

\* float(value) for the decimal notation (digits with at most one point, an
\* optional sign); the values drawn below carry no exponent, inf or nan
RECURSIVE Pow10(_)
Pow10(k) == IF k = 0 THEN 1 ELSE 10 * Pow10(k - 1)

float_parse(value) ==
    LET v == Strip(value, Whitespace)
        neg == v # <<>> /\ Head(v) = "-"
        body == IF neg THEN Tail(v) ELSE v
        dot == Find(body, <<".">>, 1)
        ip == IF dot = 0 THEN body ELSE SubSeq(body, 1, dot - 1)
        fp == IF dot = 0 THEN <<>> ELSE RStrip(SubSeq(body, dot + 1, Len(body)), {"0"})
        ok == /\ AllIn(ip, Digits)
              /\ dot # 0 => AllIn(SubSeq(body, dot + 1, Len(body)), Digits)
              /\ Len(body) - (IF dot = 0 THEN 0 ELSE 1) >= 1
        mag == DigitsValue(ip) * Pow10(Len(fp)) + DigitsValue(fp)
    IN  IF ok THEN Returned(PyFloat(IF neg THEN 0 - mag ELSE mag, Len(fp)))
        ELSE Raised("ValueError")

\* dtype(value) for the callables of the catalog
dtype_call(dtype, value) ==
    CASE dtype = "str"   -> Returned(PyStr(value))
      [] dtype = "int"   -> int_parse(value)
      [] dtype = "float" -> float_parse(value)
      [] dtype = "list"  -> Returned(PyStr(value))

T_MIDNIGHT == <<"T","0","0",":","0","0",":","0","0",".","0","0","0","0","0","0","Z">>

convert_value_type(name, operator, value) ==
    IF name \notin DOMAIN DATA_TYPES
    THEN Raised("InvalidQueryParameter")            \* KeyError on DATA_TYPES[name]
    ELSE LET dtype == DATA_TYPES[name]
         IN  IF dtype \notin TypePatternKeys
             THEN Raised("InvalidQueryParameter")    \* KeyError on TypePatterns[dtype]
             ELSE IF ~TypePatterns(dtype, value)
             THEN Raised("ValueNotAcceptable")
             ELSE IF dtype = "datetime"
             THEN Returned(PyStr(value \o T_MIDNIGHT))
             ELSE dtype_call(dtype, value)           \* ValueError is not caught here

---------------------------------------------------------------------------
(* queries.py: the regular expressions of QueryParser *)

\* [a-z2356780] under re.I
LatestByChars == Letters \cup {"2", "3", "5", "6", "7", "8", "0"}

\* [a-z0-9,'.\-()\s]
ValueChars == Letters \cup Digits \cup {",", "'", ".", "-", "(", ")"} \cup Whitespace

NoMatch == [found |-> FALSE, group1 |-> <<>>, group2 |-> <<>>]

\* latest_by = (&?latestBy=([a-z2356780]{2,75}))&?  under re.I, .search
latest_by_search(q) ==
    LET lit == <<"l","a","t","e","s","t","B","y","=">>
        \* start of the literal for a match that begins at i, 0 when none begins there
        litAt(i) == IF q[i] = "&" /\ MatchAtCI(q, i + 1, lit) THEN i + 1
                    ELSE IF MatchAtCI(q, i, lit) THEN i ELSE 0
        ok(i) == litAt(i) # 0 /\ Run(q, litAt(i) + Len(lit), LatestByChars, 75) >= 2
        hits == {i \in 1..Len(q) : ok(i)}
    IN  IF hits = {} THEN NoMatch
        ELSE LET i == Min(hits)
                 v == litAt(i) + Len(lit)
                 n == Run(q, v, LatestByChars, 75)
             IN  [found |-> TRUE,
                  group1 |-> SubSeq(q, i, v + n - 1),
                  group2 |-> SubSeq(q, v, v + n - 1)]

\* filter_pattern = filters=([^&]+)(&|$)  .search
filter_pattern_search(q) ==
    LET lit == <<"f","i","l","t","e","r","s","=">>
        ok(i) == MatchAt(q, i, lit) /\ i + Len(lit) <= Len(q) /\ q[i + Len(lit)] # "&"
        hits == {i \in 1..Len(q) : ok(i)}
    IN  IF hits = {} THEN NoMatch
        ELSE LET v == Min(hits) + Len(lit)
                 amp == Find(q, <<"&">>, v)
                 last == IF amp = 0 THEN Len(q) ELSE amp - 1
             IN  [found |-> TRUE, group1 |-> SubSeq(q, v, last), group2 |-> <<>>]

\* PAGINATION_PATTERN = (page=(\d{,3}))  .search
pagination_pattern_search(q) ==
    LET lit == <<"p","a","g","e","=">>
        i == Find(q, lit, 1)
    IN  IF i = 0 THEN NoMatch
        ELSE LET n == Run(q, i + Len(lit), Digits, 3)
             IN  [found |-> TRUE,
                  group1 |-> SubSeq(q, i, i + Len(lit) + n - 1),
                  group2 |-> SubSeq(q, i + Len(lit), i + Len(lit) + n - 1)]

\* structure_pattern = (&?structure=([^&]+))&?  .search
structure_pattern_search(q) ==
    LET lit == <<"s","t","r","u","c","t","u","r","e","=">>
        litAt(i) == IF q[i] = "&" /\ MatchAt(q, i + 1, lit) THEN i + 1
                    ELSE IF MatchAt(q, i, lit) THEN i ELSE 0
        ok(i) == litAt(i) # 0 /\ litAt(i) + Len(lit) <= Len(q) /\ q[litAt(i) + Len(lit)] # "&"
        hits == {i \in 1..Len(q) : ok(i)}
    IN  IF hits = {} THEN NoMatch
        ELSE LET i == Min(hits)
                 v == litAt(i) + Len(lit)
                 amp == Find(q, <<"&">>, v)
                 last == IF amp = 0 THEN Len(q) ELSE amp - 1
             IN  [found |-> TRUE, group1 |-> SubSeq(q, i, last), group2 |-> SubSeq(q, v, last)]

\* format_as = (&?format=(json|csv|xml))&?  .search
format_as_search(q) ==
    LET lit == <<"f","o","r","m","a","t","=">>
        litAt(i) == IF q[i] = "&" /\ MatchAt(q, i + 1, lit) THEN i + 1
                    ELSE IF MatchAt(q, i, lit) THEN i ELSE 0
        alt(i) == LET v == litAt(i) + Len(lit)
                  IN  IF MatchAt(q, v, <<"j","s","o","n">>) THEN <<"j","s","o","n">>
                      ELSE IF MatchAt(q, v, <<"c","s","v">>) THEN <<"c","s","v">>
                      ELSE IF MatchAt(q, v, <<"x","m","l">>) THEN <<"x","m","l">>
                      ELSE <<>>
        ok(i) == litAt(i) # 0 /\ alt(i) # <<>>
        hits == {i \in 1..Len(q) : ok(i)}
    IN  IF hits = {} THEN NoMatch
        ELSE LET i == Min(hits)
                 v == litAt(i) + Len(lit)
             IN  [found |-> TRUE,
                  group1 |-> SubSeq(q, i, v + Len(alt(i)) - 1),
                  group2 |-> alt(i)]

\* token_pattern at position i:
\*   (?P<name>[a-z]{2,75})(?P<operator>[<>!]?=?)(?P<value>[a-z0-9,'.\-()\s]{1,75})(?P<connector>[;|]?)
\* under re.X | re.I.  The name is tried from its longest length down to 2;
\* the operator takes what it can, and the value has to start right after it
\* (no operator character is a value character).
OperatorLenAt(s, j) ==
    LET first == IF j <= Len(s) /\ s[j] \in {"<", ">", "!"} THEN 1 ELSE 0
        second == IF j + first <= Len(s) /\ s[j + first] = "=" THEN 1 ELSE 0
    IN  first + second

token_pattern_match(s, i) ==
    LET maxName == Run(s, i, Letters, 75)
        valueAt(n) == i + n + OperatorLenAt(s, i + n)
        ok(n) == valueAt(n) <= Len(s) /\ s[valueAt(n)] \in ValueChars
        lens == {n \in 2..maxName : ok(n)}
    IN  IF lens = {} THEN [found |-> FALSE, end |-> i, name |-> <<>>, operator |-> <<>>,
                           value |-> <<>>, connector |-> <<>>]
        ELSE LET n == CHOOSE m \in lens : \A k \in lens : k <= m
                 o == OperatorLenAt(s, i + n)
                 v == i + n + o
                 vn == Run(s, v, ValueChars, 75)
                 c == IF v + vn <= Len(s) /\ s[v + vn] \in {";", "|"} THEN 1 ELSE 0
             IN  [found |-> TRUE,
                  end |-> v + vn + c,
                  name |-> SubSeq(s, i, i + n - 1),
                  operator |-> SubSeq(s, i + n, i + n + o - 1),
                  value |-> SubSeq(s, v, v + vn - 1),
                  connector |-> SubSeq(s, v + vn, v + vn + c - 1)]

\* get_queries: token_pattern.finditer(filters_value)
RECURSIVE finditer(_, _)
finditer(s, i) ==
    IF i > Len(s) THEN <<>>
    ELSE LET m == token_pattern_match(s, i)
         IN  IF m.found THEN <<m>> \o finditer(s, m.end) ELSE finditer(s, i + 1)

get_queries(filters_value) == finditer(filters_value, 1)

---------------------------------------------------------------------------
(* queries.py: QueryParser *)

\* an attribute that holds a method of the object instead of the method's result
BoundMethod(name) == "<bound method QueryParser." \o name \o ">"

\* extract_latest_filter: [raised, value (Optional str), query (the _query left behind)]
extract_latest_filter(q) ==
    Bind(latest_by_search(q), LAMBDA found :
        Bind(Remove(q, found.group1), LAMBDA rest :
            IF ~found.found THEN [raised |-> "", value |-> None, query |-> q]
            ELSE IF found.group2 \notin DATE_PARAMS /\ found.group2 \notin DOMAIN DATA_TYPES
            THEN [raised |-> "InvalidQueryParameter", value |-> None, query |-> rest]
            ELSE [raised |-> "", value |-> Some(found.group2), query |-> rest]))

QueryData(arguments, query, area_type) ==
    [arguments |-> arguments, query |-> query, area_type |-> area_type]

\* the locals of extract_content before the first token
ContentStart ==
    [raised |-> "", query |-> <<"A","N","D"," ">>, arguments |-> <<>>, param_names |-> <<>>,
     raw_filters |-> <<>>, area_type |-> None]

\* one pass of the for loop of extract_content over the token args, numbered index
content_step(acc, args, index) ==
    IF RestrictedRefuses(args.name, args.value)
    THEN [acc EXCEPT !.param_names = Append(@, args.name),
                     !.raised = "UnauthorisedRequest"]
    ELSE
    Bind([acc EXCEPT !.param_names = Append(@, args.name),
                     !.raw_filters = Append(@, [identifier |-> args.name,
                                                operator |-> args.operator,
                                                value |-> args.value])],
         LAMBDA echoed :
    Bind(convert_value_type(args.name, args.operator, args.value), LAMBDA converted :
        IF converted.raised # "" THEN [echoed EXCEPT !.raised = converted.raised]
        ELSE
    Bind([echoed EXCEPT
             !.area_type = IF args.name = <<"a","r","e","a","T","y","p","e">> THEN Some(converted.value.s) ELSE @,
             !.query = @ \o param_fn(args.name) \o <<" ">> \o args.operator \o <<" ">>
                         \o input_argument(args.name, <<"$">> \o IntToStr(index))],
         LAMBDA compiled :
    Bind(value_fn(args.name, converted.value), LAMBDA argument :
        IF argument.raised # "" THEN [compiled EXCEPT !.raised = argument.raised]
        ELSE [compiled EXCEPT
                 !.arguments = Append(@, argument.value),
                 !.query = IF args.connector = <<";">> THEN @ \o <<" ","A","N","D"," ">>
                           ELSE IF args.connector = <<"|">> THEN @ \o <<" ","O","R"," ">>
                           ELSE @]))))

\* for index, args in enumerate(self.get_queries(filters_value), start=2)
RECURSIVE content_loop(_, _, _)
content_loop(acc, toks, index) ==
    IF toks = <<>> \/ acc.raised # "" THEN acc
    ELSE content_loop(content_step(acc, Head(toks), index), Tail(toks), index + 1)

\* QueryParser.__str__: pattern = ^(?P<argument>.*)$ matched against _query
QueryParser_str(q) ==
    LET nl == Find(q, <<"\n">>, 1)
    IN  IF nl = 0 THEN q
        ELSE IF nl = Len(q) THEN SubSeq(q, 1, Len(q) - 1)
        ELSE <<>>

\* filters_value of extract_content
filters_value_of(q) ==
    LET filters == filter_pattern_search(QueryParser_str(q))
    IN  IF ~filters.found THEN <<>> ELSE unquote(unquote_plus(filters.group1))

\* extract_content with the limit tested by >= instead of >
extract_content_limit_off_by_one(q) ==
    Bind(content_loop(ContentStart, get_queries(filters_value_of(q)), 2), LAMBDA done :
        Bind(Len(done.arguments), LAMBDA current_total :
            IF done.raised # "" THEN done
            ELSE IF current_total >= MAX_QUERY_PARAMS
            THEN [done EXCEPT !.raised = "ExceedsMaxParameters"]
            ELSE IF current_total = 0
            THEN [done EXCEPT !.raised = "InvalidQuery"]
            ELSE done))

\* extract_content with the predicates enumerated from 1 instead of 2
extract_content_enumerated_from_1(q) ==
    Bind(content_loop(ContentStart, get_queries(filters_value_of(q)), 1), LAMBDA done :
        Bind(Len(done.arguments), LAMBDA current_total :
            IF done.raised # "" THEN done
            ELSE IF current_total > MAX_QUERY_PARAMS
            THEN [done EXCEPT !.raised = "ExceedsMaxParameters"]
            ELSE IF current_total = 0
            THEN [done EXCEPT !.raised = "InvalidQuery"]
            ELSE done))

\* extract_content: the locals at the raise or at the return
extract_content(q) ==
    Bind(content_loop(ContentStart, get_queries(filters_value_of(q)), 2), LAMBDA done :
        Bind(Len(done.arguments), LAMBDA current_total :
            IF done.raised # "" THEN done
            ELSE IF current_total > MAX_QUERY_PARAMS
            THEN [done EXCEPT !.raised = "ExceedsMaxParameters"]
            ELSE IF current_total = 0
            THEN [done EXCEPT !.raised = "InvalidQuery"]
            ELSE done))

\* get_page_number: [raised, value (Optional int), query]
get_page_number(q) ==
    Bind(pagination_pattern_search(q), LAMBDA found :
        Bind(Remove(q, found.group1), LAMBDA rest :
            IF ~found.found THEN [raised |-> "", value |-> None, query |-> q]
            ELSE IF found.group2 = <<>>
            THEN [raised |-> "ValueError", value |-> None, query |-> rest]   \* int('')
            ELSE [raised |-> "", value |-> Some(DigitsValue(found.group2)), query |-> rest]))

\* what get_data takes for a structure (isinstance dict or list): the labels
\* and the names they stand for; a list has its names for labels.  The
\* attribute tokens.structure is none of the two but a bound method.
Structure(t, labels, values) == [t |-> t, labels |-> labels, values |-> values]

\* QueryParser.__init__: the attributes of the object; raised names the error
\* that left the constructor, and then the caller holds no object
\* the attributes as __init__ sets them before the first extraction
NewQueryParser(query, last_update) ==
    [raised |-> "",
     query |-> query,
     last_update |-> last_update,
     structure |-> Structure(BoundMethod("extract_structure"), <<>>, <<>>),
     formatter |-> BoundMethod("extract_formatter"),
     raw_filters |-> <<>>,
     only_latest_by |-> None,
     query_data |-> QueryData(<<>>, <<>>, None),
     page_number |-> None]

QueryParser(query, last_update) ==
    Bind(NewQueryParser(query, last_update), LAMBDA object :
    Bind(extract_latest_filter(query), LAMBDA latest :
        IF latest.raised # ""
        THEN [object EXCEPT !.raised = latest.raised, !.query = latest.query]
        ELSE
    Bind(extract_content(latest.query), LAMBDA content :
        IF content.raised # ""
        THEN [object EXCEPT !.raised = content.raised, !.query = latest.query,
                            !.only_latest_by = latest.value,
                            !.raw_filters = content.raw_filters]
        ELSE
    Bind(get_page_number(latest.query), LAMBDA page :
        [object EXCEPT
            !.raised = page.raised,
            !.query = page.query,
            !.only_latest_by = latest.value,
            !.raw_filters = content.raw_filters,
            !.query_data = QueryData(content.arguments, content.query, content.area_type),
            !.page_number = page.value]))))

\* no QueryParser object is bound to the name tokens
NoTokens == [QueryParser(<<>>, <<>>) EXCEPT !.raised = "UnboundLocalError"]

\* extract_formatter: [raised, value (str), query, found (the parameter was in the query)]
extract_formatter(q) ==
    Bind(format_as_search(q), LAMBDA found :
        IF ~found.found THEN [raised |-> "", value |-> <<"j","s","o","n">>, query |-> q, found |-> FALSE]
        ELSE [raised |-> "", value |-> found.group2, query |-> Remove(q, found.group1),
              found |-> TRUE])

---------------------------------------------------------------------------
(* structure.py: format_structure, and QueryParser.extract_structure *)

\* A dict or list value is held by its JSON text (json.dumps of it).
PyDict(json) == [t |-> "dict", s |-> json, n |-> 0, e |-> 0]
PyList(json) == [t |-> "list", s |-> json, n |-> 0, e |-> 0]

\* json.dumps(DEFAULT_STRUCTURE)
DEFAULT_STRUCTURE ==
    PyDict(   <<"{","\"","a","r","e","a","T","y","p","e","\"",":"," ","\"","a","r","e","a","T","y","p","e","\"",","," ","\"","a","r","e","a","C","o","d","e","\"",":"," ","\"","a","r","e","a","C","o","d","e","\"",","," ","\"","a","r","e","a","N","a","m","e","\"",":"," ","\"","a","r","e","a","N","a","m","e","\"",","," ">>
           \o <<"\"","r","e","p","o","r","t","D","a","t","e","\"",":"," ","\"","r","e","l","e","a","s","e","T","i","m","e","s","t","a","m","p","\"",","," ">>
           \o <<"\"","c","a","s","e","s","\"",":"," ","{","\"","s","p","e","c","i","m","e","n","D","a","t","e","\"",":"," ","\"","s","p","e","c","i","m","e","n","D","a","t","e","\"",","," ">>
           \o <<"\"","d","a","i","l","y","L","a","b","C","o","n","f","i","r","m","e","d","C","a","s","e","s","\"",":"," ","\"","d","a","i","l","y","L","a","b","C","o","n","f","i","r","m","e","d","C","a","s","e","s","\"",","," ">>
           \o <<"\"","p","r","e","v","i","o","u","s","l","y","R","e","p","o","r","t","e","d","D","a","i","l","y","C","a","s","e","s","\"",":"," ","\"","p","r","e","v","i","o","u","s","l","y","R","e","p","o","r","t","e","d","D","a","i","l","y","C","a","s","e","s","\"",","," ">>
           \o <<"\"","c","h","a","n","g","e","I","n","D","a","i","l","y","C","a","s","e","s","\"",":"," ","\"","c","h","a","n","g","e","I","n","D","a","i","l","y","C","a","s","e","s","\"",","," ">>
           \o <<"\"","t","o","t","a","l","L","a","b","C","o","n","f","i","r","m","e","d","C","a","s","e","s","\"",":"," ","\"","t","o","t","a","l","L","a","b","C","o","n","f","i","r","m","e","d","C","a","s","e","s","\"",","," ">>
           \o <<"\"","p","r","e","v","i","o","u","s","l","y","R","e","p","o","r","t","e","d","T","o","t","a","l","C","a","s","e","s","\"",":"," ","\"","p","r","e","v","i","o","u","s","l","y","R","e","p","o","r","t","e","d","T","o","t","a","l","C","a","s","e","s","\"",","," ">>
           \o <<"\"","c","h","a","n","g","e","I","n","T","o","t","a","l","C","a","s","e","s","\"",":"," ","\"","c","h","a","n","g","e","I","n","T","o","t","a","l","C","a","s","e","s","\"",","," ">>
           \o <<"\"","d","a","i","l","y","T","o","t","a","l","L","a","b","C","o","n","f","i","r","m","e","d","C","a","s","e","s","R","a","t","e","\"",":"," ","\"","d","a","i","l","y","T","o","t","a","l","L","a","b","C","o","n","f","i","r","m","e","d","C","a","s","e","s","R","a","t","e","\"",","," ">>
           \o <<"\"","c","a","s","e","s","R","a","t","e","I","n","S","e","v","e","n","D","a","y","s","\"",":"," ","\"","c","a","s","e","s","R","a","t","e","I","n","S","e","v","e","n","D","a","y","s","\"","}",","," ">>
           \o <<"\"","d","e","a","t","h","s","\"",":"," ","{","\"","d","e","a","t","h","R","e","p","o","r","t","i","n","g","D","a","t","e","\"",":"," ","\"","d","e","a","t","h","R","e","p","o","r","t","i","n","g","D","a","t","e","\"",","," ">>
           \o <<"\"","d","a","i","l","y","C","h","a","n","g","e","I","n","D","e","a","t","h","s","\"",":"," ","\"","d","a","i","l","y","C","h","a","n","g","e","I","n","D","e","a","t","h","s","\"",","," ">>
           \o <<"\"","c","u","m","u","l","a","t","i","v","e","D","e","a","t","h","s","\"",":"," ","\"","c","u","m","u","l","a","t","i","v","e","D","e","a","t","h","s","\"","}","}">>)

\* [a-z2860] under re.IGNORECASE
StructureChars == Letters \cup {"2", "8", "6", "0"}

\* "(?P<db_name>[a-z2860]{2,40})" at position i: a quoted name; end is the
\* position after the closing quote
quoted_name_match(s, i) ==
    LET n == Run(s, i + 1, StructureChars, 40)
    IN  IF i <= Len(s) /\ s[i] = "\"" /\ n >= 2 /\ i + n + 1 <= Len(s) /\ s[i + n + 1] = "\""
        THEN [found |-> TRUE, name |-> SubSeq(s, i + 1, i + n), end |-> i + n + 2]
        ELSE [found |-> FALSE, name |-> <<>>, end |-> i]

\* the pattern of format_structure at position i, for "JSON"
\*   "(?P<new_name>[a-z2860]{2,40})":\s*"(?P<db_name>[a-z2860]{2,40})"
\* and for "Array"
\*   "(?P<db_name>[a-z2860]{2,40})"
structure_pattern_match(s, i, template_format) ==
    LET first == quoted_name_match(s, i)
        colon == first.found /\ first.end <= Len(s) /\ s[first.end] = ":"
        value == first.end + 1 + Run(s, first.end + 1, Whitespace, Len(s))
        second == quoted_name_match(s, value)
    IN  IF template_format = "Array"
        THEN [found |-> first.found, new_name |-> <<>>, db_name |-> first.name,
              end |-> first.end]
        ELSE [found |-> colon /\ second.found, new_name |-> first.name,
              db_name |-> second.name, end |-> second.end]

\* get_formatter(template_format).format_struct(match)
format_struct(match, template_format) ==
    IF match.db_name \notin DOMAIN DATA_TYPES
    THEN Raised("InvalidStructureParameter")        \* KeyError on DATA_TYPES[db_name]
    ELSE LET column ==
                 IF DATA_TYPES[match.db_name] = "datetime" /\ match.db_name # <<"d","a","t","e">>
                 THEN <<"S","U","B","S","T","R","I","N","G","(","c",".">> \o match.db_name \o <<","," ","0",","," ","1","0",")">>
                 ELSE <<"c",".">> \o match.db_name
             db_name == <<"(">> \o column \o <<" ","?","?"," ","n","u","l","l",")">>
         IN  IF template_format = "JSON"
             THEN Returned(PyStr(<<"'">> \o match.new_name \o <<"'",":"," ">> \o db_name))
             ELSE Returned(PyStr(db_name))

\* pattern.sub(formatter, struct_json) from position i on
RECURSIVE pattern_sub(_, _, _)
\* the text so far followed by what the rest of the substitution gives
prepend(text, rest) ==
    IF rest.raised # "" THEN rest ELSE Returned(PyStr(text \o rest.value.s))

pattern_sub(s, i, template_format) ==
    IF i > Len(s) THEN Returned(PyStr(<<>>))
    ELSE Bind(structure_pattern_match(s, i, template_format), LAMBDA m :
            IF ~m.found THEN prepend(<<s[i]>>, pattern_sub(s, i + 1, template_format))
            ELSE Bind(format_struct(m, template_format), LAMBDA repl :
                    IF repl.raised # "" THEN repl
                    ELSE prepend(repl.value.s, pattern_sub(s, m.end, template_format))))

\* format_structure(struct): isinstance decides; a str is neither dict nor list
format_structure(struct) ==
    IF struct.t = "dict" THEN pattern_sub(struct.s, 1, "JSON")
    ELSE IF struct.t = "list" THEN pattern_sub(struct.s, 1, "Array")
    ELSE Raised("InvalidStructure")

\* extract_structure: [raised, value, query, found].  The text of the parameter is
\* url-decoded and handed on as it is, a str.
extract_structure(q) ==
    Bind(structure_pattern_search(q), LAMBDA found :
        Bind(format_structure(IF found.found THEN PyStr(unquote_plus(found.group2))
                              ELSE DEFAULT_STRUCTURE),
             LAMBDA formatted :
                [raised |-> formatted.raised, value |-> formatted.value,
                 query |-> IF found.found THEN Remove(q, found.group1) ELSE q,
                 found |-> found.found]))

---------------------------------------------------------------------------
(* constants.py: DBQueries, the statements, and what the server answers.
   A table is the rows of the partition that the filters of a request select:
   a sequence of areas in the order of area_id; an area holds rows for n
   consecutive dates, the most recent numbered last, and on each of them one
   row for each of its metrics, in the order the server yields them. *)

Block(last, n, metrics) == [last |-> last, n |-> n, metrics |-> metrics]

\* metric = ANY($1): the rows of one (area, date) of the block that pass
group_metrics(block, db_metrics) ==
    SelectSeq(block.metrics, LAMBDA m : m \in db_metrics)

\* the rows of the first k areas that pass metric = ANY($1)
RECURSIVE rows_upto(_, _, _)
rows_upto(table, k, db_metrics) ==
    IF k = 0 THEN 0
    ELSE rows_upto(table, k - 1, db_metrics)
            + table[k].n * Len(group_metrics(table[k], db_metrics))

\* DBQueries.count: SELECT COUNT(*) AS count
DBQueries_count(table, db_metrics) == rows_upto(table, Len(table), db_metrics)

\* DBQueries.exists: OFFSET $offset FETCH FIRST 1 ROW ONLY; a row, or none
DBQueries_exists(table, db_metrics, offset) == DBQueries_count(table, db_metrics) > offset

\* the part of the rows lo .. hi - 1 of the result that belongs to area k;
\* its rows are numbered from first on
slice(table, k, db_metrics, lo, hi) ==
    Bind(rows_upto(table, k - 1, db_metrics), LAMBDA first :
        [first |-> first,
         d |-> Len(group_metrics(table[k], db_metrics)),
         lo |-> IF lo > first THEN lo ELSE first,
         hi |-> IF hi < rows_upto(table, k, db_metrics) THEN hi
                ELSE rows_upto(table, k, db_metrics)])

\* the (area, date) pairs that have a row in the slice
slice_groups(s) ==
    IF s.lo >= s.hi THEN 0
    ELSE ((s.hi - 1 - s.first) \div s.d) - ((s.lo - s.first) \div s.d) + 1

\* the number of the first row of the slice that holds the j-th metric of a
\* group, -1 when none does
first_row(s, n, j) ==
    Bind(s.lo - s.first - (j - 1), LAMBDA x :
        Bind(IF x <= 0 THEN 0 ELSE (x + s.d - 1) \div s.d, LAMBDA g :
            IF s.lo < s.hi /\ g < n /\ s.first + g * s.d + (j - 1) < s.hi
            THEN s.first + g * s.d + (j - 1)
            ELSE -1))

\* the metrics of the rows lo .. hi - 1, each with the number of its first row
appearances(table, db_metrics, lo, hi) ==
    {a \in UNION {{<<first_row(slice(table, k, db_metrics, lo, hi), table[k].n, j),
                     group_metrics(table[k], db_metrics)[j]>> :
                        j \in 1..Len(group_metrics(table[k], db_metrics))} :
                  k \in 1..Len(table)} : a[1] >= 0}

\* the pairs of S in the order of their row numbers, the first of each metric only
RECURSIVE in_row_order(_)
in_row_order(S) ==
    IF S = {} THEN <<>>
    ELSE Bind(CHOOSE a \in S : \A b \in S : a[1] <= b[1], LAMBDA a :
            <<a[2]>> \o in_row_order({b \in S : b[2] # a[2]}))

RECURSIVE groups_upto(_, _, _, _, _)
groups_upto(table, k, db_metrics, lo, hi) ==
    IF k = 0 THEN 0
    ELSE groups_upto(table, k - 1, db_metrics, lo, hi)
            + slice_groups(slice(table, k, db_metrics, lo, hi))

\* DBQueries.data_query: ORDER BY area_id, date DESC LIMIT $limit OFFSET $offset.
\* rows: the long rows fetched; groups: the (area, date) pairs among them;
\* metrics: the metrics among them in the order of first appearance
DBQueries_data_query(table, db_metrics, limit, offset) ==
    Bind(DBQueries_count(table, db_metrics), LAMBDA total :
        Bind(IF offset + limit < total THEN offset + limit ELSE total, LAMBDA hi :
            [rows |-> IF hi > offset THEN hi - offset ELSE 0,
             groups |-> groups_upto(table, Len(table), db_metrics, offset, hi),
             metrics |-> in_row_order(appearances(table, db_metrics, offset, hi)),
             index |-> <<>>]))

\* SELECT MAX(date) ... WHERE metric = '$latest_by' $filters: one date for the
\* whole statement, 0 (NULL) when no row holds the metric
latest_date(table, latest_by) ==
    Bind({table[k].last : k \in {i \in 1..Len(table) :
                table[i].n > 0 /\ latest_by \in Range(table[i].metrics)}}, LAMBDA dates :
        IF dates = {} THEN 0 ELSE CHOOSE d \in dates : \A e \in dates : e <= d)

\* the areas that hold rows dated date
areas_on(table, db_metrics, date) ==
    SelectSeq([k \in 1..Len(table) |-> k],
              LAMBDA k : /\ group_metrics(table[k], db_metrics) # <<>>
                         /\ table[k].last - table[k].n < date
                         /\ date <= table[k].last)

RECURSIVE rows_on(_, _, _)
rows_on(table, db_metrics, areas) ==
    IF areas = <<>> THEN 0
    ELSE Len(group_metrics(table[Head(areas)], db_metrics))
            + rows_on(table, db_metrics, Tail(areas))

\* DBQueries.latest_date_for_metric: the rows dated MAX(date), ORDER BY
\* area_code, date DESC.  index: the (area, date) pairs of the rows
DBQueries_latest_date_for_metric(table, db_metrics, latest_by) ==
    Bind(latest_date(table, latest_by), LAMBDA date :
        Bind(areas_on(table, db_metrics, date), LAMBDA areas :
            [rows |-> rows_on(table, db_metrics, areas),
             groups |-> Len(areas),
             metrics |-> in_row_order(
                 UNION {{<<100 * k + j, group_metrics(table[areas[k]], db_metrics)[j]>> :
                            j \in 1..Len(group_metrics(table[areas[k]], db_metrics))} :
                        k \in 1..Len(areas)}),
             index |-> [k \in 1..Len(areas) |-> <<areas[k], date>>]]))

\* the WHERE clause of the data, latest and exists statements after the
\* substitution of $filters, as a sequence of words
where_clause(query) ==
    Split(<<"m","e","t","r","i","c"," ","="," ","A","N","Y","(","$","1",":",":","V","A","R","C","H","A","R","[","]",")"," ","A","N","D"," ","r","r",".","r","e","l","e","a","s","e","d"," ","I","S"," ","T","R","U","E"," ">> \o query.filters
            \o (IF query.template = "latest_date_for_metric"
                THEN <<" ","A","N","D"," ","d","a","t","e"," ","="," ","(","s","u","b","q","u","e","r","y",")">> ELSE <<>>),
          <<" ">>)

\* a long row of the partition as the WHERE clause sees it: whether its metric
\* is in $1, its release and its metric are released, its date is the one of
\* the subquery, and whether it satisfies the predicate with placeholder k + 1
Row(metric, release_released, metric_released, latest, holds) ==
    [metric |-> metric, release_released |-> release_released,
     metric_released |-> metric_released, latest |-> latest, holds |-> holds]

\* one comparison of the clause
comparison_holds(words, row) ==
    IF words = Split(<<"m","e","t","r","i","c"," ","="," ","A","N","Y","(","$","1",":",":","V","A","R","C","H","A","R","[","]",")">>, <<" ">>) THEN row.metric
    ELSE IF words = Split(<<"r","r",".","r","e","l","e","a","s","e","d"," ","I","S"," ","T","R","U","E">>, <<" ">>) THEN row.release_released
    ELSE IF words = Split(<<"m","r",".","r","e","l","e","a","s","e","d"," ","I","S"," ","T","R","U","E">>, <<" ">>) THEN row.metric_released
    ELSE IF words = Split(<<"d","a","t","e"," ","="," ","(","s","u","b","q","u","e","r","y",")">>, <<" ">>) THEN row.latest
    ELSE row.holds[DigitsValue(Tail(words[Len(words)])) - 1]

\* SQL precedence: AND binds tighter than OR
where_selects(query, row) ==
    \E conjunction \in Range(Split(where_clause(query), << <<"O","R">> >>)) :
        \A comparison \in Range(Split(conjunction, << <<"A","N","D">> >>)) :
            comparison_holds(comparison, row)

---------------------------------------------------------------------------
(* database.py: get_data *)

\* the database activity of a request before Connection() is entered
NoDatabase == [connections |-> 0, statements |-> <<>>]

\* def get_data(request, tokens, formatter, timestamp)
get_data_parameters == <<"request", "tokens", "formatter", "timestamp">>

\* db_args = [list(db_metrics), *arguments]
db_args(db_metrics, arguments) == <<db_metrics>> \o arguments

base_metrics == << <<"a","r","e","a","C","o","d","e">>, <<"a","r","e","a","T","y","p","e">>, <<"a","r","e","a","N","a","m","e">>, <<"d","a","t","e">> >>
single_partition_types == { <<"u","t","l","a">>, <<"l","t","l","a">>, <<"n","h","s","t","r","u","s","t">>, <<"m","s","o","a">> }

\* await tokens.structure: a method is no awaitable
await_structure(attribute) ==
    IF attribute.t = BoundMethod("extract_structure") THEN Raised("TypeError")
    ELSE Returned(attribute)

\* get_partition_id(area_type, timestamp): ts = fromisoformat(timestamp[:26]),
\* f"{ts:%Y_%-m_%-d}_{area_type.lower()}"
get_partition_id(area_type, timestamp) ==
    [year |-> DigitsValue(SubSeq(timestamp, 1, 4)),
     month |-> DigitsValue(SubSeq(timestamp, 6, 7)),
     day |-> DigitsValue(SubSeq(timestamp, 9, 10)),
     area_type |-> IF str_lower(area_type) \in single_partition_types
                   THEN str_lower(area_type) ELSE <<"o","t","h","e","r">>]

\* get_query: the template and what is substituted into it
get_query(request, latest_by, partition_id, filters, page_number, n_metrics) ==
    Bind([partition |-> partition_id, filters |-> filters \o <<" ","A","N","D"," ","m","r",".","r","e","l","e","a","s","e","d"," ","I","S"," ","T","R","U","E">>,
          latest_by |-> None, limit |-> 0, offset |-> 0], LAMBDA query :
        IF latest_by # None
        THEN [query EXCEPT !.latest_by = latest_by] @@ [template |-> "latest_date_for_metric"]
        ELSE IF request.method = "GET"
        THEN [query EXCEPT !.limit = MAX_ITEMS_PER_RESPONSE * n_metrics,
                           !.offset = MAX_ITEMS_PER_RESPONSE * n_metrics * (page_number - 1)]
                @@ [template |-> "data_query"]
        ELSE [query EXCEPT !.offset = MAX_ITEMS_PER_RESPONSE * n_metrics * (page_number - 1)]
                @@ [template |-> "exists"])

\* get_count: the statement is built and fetched at every call
get_count(args, partition_id, filters) ==
    [template |-> "count", partition |-> partition_id, filters |-> filters,
     db_args |-> args]

\* the DataFrame after pivot_table, reset_index, sort_values and
\* .loc[:, [*base_metrics, *response_metrics]]: one row for each (area, date)
DataFrame(values) ==
    [rows |-> values.groups, columns |-> base_metrics \o values.metrics,
     index |-> values.index]

\* set_column_labels: a list leaves the frame as it is; a dict selects its
\* values (a column that is missing is added, all None) and renames them
set_column_labels(df, structure) ==
    IF structure.t = "list" THEN df
    ELSE [df EXCEPT !.columns =
            [i \in 1..Len(structure.values) |->
                structure.labels[CHOOSE j \in 1..Len(structure.values) :
                    /\ structure.values[j] = structure.values[i]
                    /\ \A l \in 1..Len(structure.values) :
                          structure.values[l] = structure.values[i] => l <= j]]]

\* PAGINATION_PATTERN.sub("", url): every page=ddd is taken out, left to right
RECURSIVE pagination_pattern_sub(_)
pagination_pattern_sub(url) ==
    Bind(Find(url, <<"p","a","g","e","=">>, 1), LAMBDA i :
        IF i = 0 THEN url
        ELSE SubSeq(url, 1, i - 1)
                \o pagination_pattern_sub(
                       SubSeq(url, i + 5 + Run(url, i + 5, Digits, 3), Len(url))))

\* what get_data returns: the dumped payload (bytes), the csv (bytes), str()
NoPayload ==
    [t |-> "str", format |-> "", length |-> 0, maxPageLimit |-> 0, totalRecords |-> 0,
     data |-> [rows |-> 0, keys |-> <<>>, index |-> <<>>],
     pagination |-> None,
     requestPayload |-> [structure |-> Structure("list", <<>>, <<>>), filters |-> <<>>,
                         page |-> None, latestBy |-> None]]

\* the pagination block of format_response
pagination(url, page_number, total_pages) ==
    [current |-> Some(url \o <<"&","p","a","g","e","=">> \o IntToStr(page_number)),
     next |-> IF page_number < total_pages
              THEN Some(url \o <<"&","p","a","g","e","=">> \o IntToStr(page_number + 1)) ELSE None,
     previous |-> IF page_number - 1 > 0
                  THEN Some(url \o <<"&","p","a","g","e","=">> \o IntToStr(page_number - 1)) ELSE None,
     first |-> Some(url \o <<"&","p","a","g","e","=","1">>),
     last |-> Some(url \o <<"&","p","a","g","e","=">> \o IntToStr(total_pages))]

\* format_response(df, request, response_type, count, page_number, n_metrics,
\* structure, raw_filters): [raised, payload]
format_response(df, request, response_type, count, page_number, n_metrics, structure, raw_filters) ==
    IF response_type = "csv"
    THEN [raised |-> "",
          payload |-> [NoPayload EXCEPT !.t = "bytes", !.format = "csv",
                          !.data = [rows |-> df.rows, keys |-> df.columns, index |-> df.index]]]
    ELSE IF n_metrics = 0
    THEN [raised |-> "ZeroDivisionError", payload |-> NoPayload]
    ELSE
    Bind((count + MAX_ITEMS_PER_RESPONSE * n_metrics - 1)
            \div (MAX_ITEMS_PER_RESPONSE * n_metrics), LAMBDA total_pages :
    Bind(pagination_pattern_sub(request.url_query), LAMBDA prepped_url :
    Bind(unquote_plus(Strip(<<"/","v","1","/","d","a","t","a","?">> \o prepped_url, {"&"})), LAMBDA url :
        [raised |-> "",
         payload |->
            [t |-> "bytes", format |-> "json",
             length |-> df.rows,
             maxPageLimit |-> MAX_ITEMS_PER_RESPONSE,
             totalRecords |-> IF Contains(prepped_url, <<"l","a","t","e","s","t","B","y">>) THEN df.rows ELSE count,
             data |-> [rows |-> df.rows, keys |-> df.columns, index |-> df.index],
             pagination |-> IF request.params.latestBy = None
                            THEN Some(pagination(url, page_number, total_pages))
                            ELSE None,
             requestPayload |->
                [structure |-> structure, filters |-> raw_filters,
                 page |-> IF request.params.latestBy = None THEN Some(page_number) ELSE None,
                 latestBy |-> request.params.latestBy]]])))

\* conn.fetch(query, *db_args) / conn.fetchrow(query, *db_args): what the server
\* answers; a negative OFFSET is refused
fetch(query, db_metrics, table) ==
    Bind([raised |-> "", rows |-> 0, groups |-> 0, metrics |-> <<>>, index |-> <<>>,
          exists |-> FALSE], LAMBDA none :
        IF query.template = "latest_date_for_metric"
        THEN DBQueries_latest_date_for_metric(table, db_metrics, query.latest_by[1])
                @@ [raised |-> "", exists |-> FALSE]
        ELSE IF query.offset < 0
        THEN [none EXCEPT !.raised = "PostgresError"]
        ELSE IF query.template = "data_query"
        THEN DBQueries_data_query(table, db_metrics, query.limit, query.offset)
                @@ [raised |-> "", exists |-> FALSE]
        ELSE [none EXCEPT !.exists = DBQueries_exists(table, db_metrics, query.offset)])

\* the statements of the 'async with Connection() as conn' block, in order
statements_of(request, tkns, query, count_query) ==
    IF request.method = "GET" /\ tkns.only_latest_by = None
    THEN <<count_query, query @@ [db_args |-> count_query.db_args]>>
    ELSE <<query @@ [db_args |-> count_query.db_args]>>

\* get_data from 'if request.method == RequestMethod.Head' on
\* [raised, payload]
get_data_result(request, tkns, formatter, structure, page_number, count, values) ==
    IF values.raised # "" THEN [raised |-> values.raised, payload |-> NoPayload]
    ELSE IF request.method = "HEAD"
    THEN IF ~values.exists     \* the row of the latest statement has no 'exists'
         THEN [raised |-> "NotAvailable", payload |-> NoPayload]
         ELSE [raised |-> "", payload |-> NoPayload]
    ELSE IF values.rows = 0
    THEN [raised |-> "NotAvailable", payload |-> NoPayload]
    ELSE format_response(set_column_labels(DataFrame(values), structure), request,
                         formatter, count, page_number, Len(structure.values), structure,
                         tkns.raw_filters)

\* Connection.__aexit__: self._connection is the coroutine asyncpg.connect
\* returned, and close() of a coroutine that has finished does nothing; the
\* connection it produced stays open.  The connections open after the block
Connection_aexit(acquired) == acquired

\* get_data(request, tokens, formatter, timestamp); table is what the server
\* holds.  [raised, payload, connections, statements]
get_data(request, tkns, formatter, timestamp, table) ==
    Bind(await_structure(tkns.structure), LAMBDA awaited :
        IF awaited.raised # ""
        THEN [raised |-> awaited.raised, payload |-> NoPayload, connections |-> 0,
              open |-> 0, statements |-> <<>>]
        ELSE IF tkns.query_data.area_type = None     \* None.lower() in get_partition_id
        THEN [raised |-> "AttributeError", payload |-> NoPayload, connections |-> 0,
              open |-> 0, statements |-> <<>>]
        ELSE
    Bind(IF tkns.page_number # None THEN tkns.page_number[1] ELSE 1, LAMBDA page_number :
    Bind(get_partition_id(tkns.query_data.area_type[1], timestamp), LAMBDA partition_id :
    Bind(get_query(request, tkns.only_latest_by, partition_id, tkns.query_data.query,
                   page_number, Len(awaited.value.values)), LAMBDA query :
    Bind(Range(awaited.value.values) \ Range(base_metrics), LAMBDA db_metrics :
    Bind(get_count(db_args(db_metrics, tkns.query_data.arguments), partition_id,
                   tkns.query_data.query), LAMBDA count_query :
    Bind(IF request.method = "GET" /\ tkns.only_latest_by = None
         THEN DBQueries_count(table, db_metrics) ELSE 0, LAMBDA count :
    Bind(get_data_result(request, tkns, formatter, awaited.value, page_number, count,
                         fetch(query, db_metrics, table)), LAMBDA result :
        [raised |-> result.raised, payload |-> result.payload, connections |-> 1,
         open |-> Connection_aexit(1),
         statements |-> statements_of(request, tkns, query, count_query)]))))))))

---------------------------------------------------------------------------
(* api.py: api_handler *)

GENERIC_ERROR ==
    "An internal error occurred whilst processing your request, please "
        \o "try again. If the problem persists, please report as an issue and "
        \o "include your request."

\* the body handed to the finisher: a dict (the error envelope), or what
\* get_data returned (bytes, or str() for HEAD)
Envelope(message, code, phrase) ==
    [t |-> "dict", response |-> message, status_code |-> code, status |-> phrase]
Payload(t) == [t |-> t, response |-> "", status_code |-> 0, status |-> ""]

\* the except APIException clause
api_exception(kind) ==
    LET real == APIExceptionCode[kind]
        code == IF 400 <= real /\ real < 500 THEN 400 ELSE real
        phrase == IF code = 400 THEN "Bad request" ELSE HTTPStatusPhrase(real)
    IN  [code |-> code, response |-> Envelope(kind, code, phrase)]

\* the except Exception clause
generic_exception ==
    [code |-> 500, response |-> Envelope(GENERIC_ERROR, 500, HTTPStatusPhrase(500))]

\* the two except clauses of api_handler, for an error raised in its try block
except(kind) == IF kind \in APIException THEN api_exception(kind) ELSE generic_exception

\* the positional arguments of the call of get_data in api_handler
get_data_call == <<"req", "tokens", "lastUpdateTimestamp">>

\* the try block of api_handler: the error that leaves it (raised), the object
\* and formatter bound by then, what get_data returned, the database activity
\* raised_in_try with Connection() entered ahead of the guards of the try block
raised_after_connecting(kind, tkns, formatter) ==
    [raised |-> kind, tokens |-> tkns, formatter |-> formatter, payload |-> "",
     db |-> [connections |-> 1, statements |-> <<>>]]

\* an error raised in the try block before get_data is entered
raised_in_try(kind, tkns, formatter) ==
    [raised |-> kind, tokens |-> tkns, formatter |-> formatter, payload |-> "",
     db |-> NoDatabase]

try_block(r, query, answer) ==
    Bind(QueryParser(query, r.timestamp), LAMBDA tkns :
        IF tkns.raised # "" THEN raised_in_try(tkns.raised, tkns, "json")
        ELSE
    \* tokens.formatter or formatter
    Bind(IF tkns.formatter # "" THEN tkns.formatter ELSE "json", LAMBDA formatter :
        IF r.params.page # None /\ r.params.latestBy # None
        THEN raised_in_try("BadPagination", tkns, formatter)
        ELSE IF r.params.latestBy # None /\ formatter \notin {"json", "xml"}
        THEN raised_in_try("InvalidFormat", tkns, formatter)
        ELSE IF ~Contains(query, <<"a","r","e","a","T","y","p","e">>)
        THEN raised_in_try("MissingFilter", tkns, formatter)
        ELSE IF Len(get_data_call) # Len(get_data_parameters)
        THEN raised_in_try("TypeError", tkns, formatter)   \* missing positional argument
        ELSE
    Bind(get_data(r, tkns, formatter, r.timestamp, answer), LAMBDA data :
        [raised |-> data.raised, tokens |-> tkns, formatter |-> formatter,
         payload |-> IF data.payload.t = "bytes" THEN "bytes" ELSE "",
         db |-> [connections |-> data.connections, statements |-> data.statements]])))

\* api_handler(req, lastUpdateTimestamp, seriesDate): the tuple it returns
\* (code, response, raw_query, formatter), with the error caught on the way,
\* the parser object and the database activity
api_handler(r, answer) ==
    Bind(try_block(r, unquote_plus(r.url_query), answer), LAMBDA try :
        [raised |-> try.raised,
         code |-> IF try.raised = "" THEN 200 ELSE except(try.raised).code,
         response |-> IF try.raised = ""
                      THEN Payload(IF try.payload = "" THEN "str" ELSE "bytes")
                      ELSE except(try.raised).response,
         raw_query |-> r.url_query,
         formatter |-> try.formatter,
         tokens |-> try.tokens,
         db |-> try.db])

---------------------------------------------------------------------------
(* response.py: format_response.inner, the finisher *)

\* the release timestamp as inner rewrites it before parsing
fixed_timestamp(ts) ==
    LET dots == {i \in 1..Len(ts) : ts[i] = "."}
        last == IF dots = {} THEN ts
                ELSE SubSeq(ts, (CHOOSE i \in dots : \A j \in dots : j <= i) + 1, Len(ts))
    IN  IF Len(Strip(last, {"Z"})) = 7
        THEN Remove(Remove(ts, <<"0", "Z">>), <<"5", "Z">>) \o <<"Z">>
        ELSE ts

\* datetime.strptime(ts, "%Y-%m-%dT%H:%M:%S.%fZ") accepts the text (fields of
\* two digits, a fraction of one to six digits)
strptime_accepts(ts) ==
    LET frac == SubSeq(ts, 21, Len(ts) - 1)
        field(i) == DigitsValue(SubSeq(ts, i, i + 1))
    IN  /\ Len(ts) >= 22
        /\ \A i \in {1, 2, 3, 4, 6, 7, 9, 10, 12, 13, 15, 16, 18, 19} : ts[i] \in Digits
        /\ ts[5] = "-" /\ ts[8] = "-" /\ ts[11] = "T"
        /\ ts[14] = ":" /\ ts[17] = ":" /\ ts[20] = "."
        /\ ts[Len(ts)] = "Z"
        /\ Len(frac) \in 1..6
        /\ AllIn(frac, Digits)
        /\ field(6) \in 1..12
        /\ field(9) \in 1..DaysIn(DigitsValue(SubSeq(ts, 1, 4)), field(6))
        /\ field(12) <= 23 /\ field(15) <= 59 /\ field(18) <= 61

UNIVERSAL_HEADERS ==
    {"Content-Encoding", "server", "Strict-Transport-Security", "x-frame-options",
     "x-content-type-options", "x-xss-protection", "referrer-policy",
     "content-security-policy", "x-phe-media-type", "PHE-Server-Loc"}

\* no HttpResponse: raised names the error that left inner instead
NoResponse == [raised |-> "", status_code |-> 0, body |-> Payload("str"), headers |-> {}]

\* head_status with the code of the handler kept as it is
head_status_unchanged(code) == code

\* status_code=204 if code < 400 else int(code)
head_status(code) == IF code < 400 THEN 204 ELSE code

\* caching with the three headers added whatever the code is
caching_always(code) == {"Cache-Control", "Content-Location", "Last-Modified"}

\* if code < 400: headers.update({...})
caching(code) ==
    IF code < 400 THEN {"Cache-Control", "Content-Location", "Last-Modified"} ELSE {}

\* inner(req, lastUpdateTimestamp): the HttpResponse, or the error that leaves inner
inner(r, h) ==
    LET data == h.response
        \* len(data) of the dumped envelope, or of str()
        empty == data.t = "str"
        headers == {"Content-Type"} \cup UNIVERSAL_HEADERS
        disposition == IF h.formatter = "csv" /\ ~empty
                       THEN {"Content-Disposition", "X-Content-Type-Options"} ELSE {}
        all == headers \cup disposition \cup caching(h.code)
    IN  IF data.t = "bytes"
        THEN [NoResponse EXCEPT !.raised = "AttributeError"]   \* bytes has no encode
        ELSE IF ~strptime_accepts(fixed_timestamp(r.timestamp))
        THEN [NoResponse EXCEPT !.raised = "ValueError"]
        ELSE IF h.formatter \notin DOMAIN RESPONSE_TYPE
        THEN [NoResponse EXCEPT !.raised = "KeyError"]         \* RESPONSE_TYPE[formatter]
        ELSE IF r.method = "HEAD"
        THEN [raised |-> "", status_code |-> head_status(h.code),
              body |-> Payload("none"), headers |-> all]    \* HttpResponse without body
        ELSE [raised |-> "", status_code |-> h.code, body |-> data, headers |-> all]

---------------------------------------------------------------------------
(* The requests: the query string of req.url and req.params *)

MaxPredicates == 6
MaxStructureEntries == 9
MaxDates == 2501

\* a filter predicate as the client writes it, with the argument it stands for
Predicate(text, name, operator, argument, raises) ==
    [text |-> text, name |-> name, operator |-> operator, argument |-> argument,
     raises |-> raises]

\* predicates with a catalogued identifier and a well-formed value
GoodPool ==
    << Predicate(<<"a","r","e","a","T","y","p","e","=","n","a","t","i","o","n">>, <<"a","r","e","a","T","y","p","e">>, <<"=">>, PyStr(<<"n","a","t","i","o","n">>), ""),
       Predicate(<<"a","r","e","a","N","a","m","e","=","E","n","g","l","a","n","d">>, <<"a","r","e","a","N","a","m","e">>, <<"=">>, PyStr(<<"e","n","g","l","a","n","d">>), ""),
       Predicate(<<"a","r","e","a","C","o","d","e","=","e","9","2","0","0","0","0","0","1">>, <<"a","r","e","a","C","o","d","e">>, <<"=">>, PyStr(<<"E","9","2","0","0","0","0","0","1">>), ""),
       Predicate(<<"d","a","t","e",">","=","2","0","2","0","-","1","0","-","0","1">>, <<"d","a","t","e">>, <<">", "=">>, PyDate(2020, 10, 1), ""),
       Predicate(<<"n","e","w","A","d","m","i","s","s","i","o","n","s",">","1","0","0">>, <<"n","e","w","A","d","m","i","s","s","i","o","n","s">>, <<">">>, PyInt(100), ""),
       Predicate(<<"h","o","s","p","i","t","a","l","C","a","s","e","s","<","=","5">>, <<"h","o","s","p","i","t","a","l","C","a","s","e","s">>, <<"<", "=">>, PyInt(5), ""),
       Predicate(<<"c","u","m","C","a","s","e","s","B","y","P","u","b","l","i","s","h","D","a","t","e","R","a","t","e","<","1",".","5">>, <<"c","u","m","C","a","s","e","s","B","y","P","u","b","l","i","s","h","D","a","t","e","R","a","t","e">>, <<"<">>,
                 PyFloat(15, 1), ""),
       Predicate(<<"d","a","t","e","<","2","0","2","1","-","0","1","-","0","1">>, <<"d","a","t","e">>, <<"<">>, PyDate(2021, 1, 1), ""),
       Predicate(<<"a","r","e","a","T","y","p","e","=","N","H","S","R","e","g","i","o","n">>, <<"a","r","e","a","T","y","p","e">>, <<"=">>, PyStr(<<"n","h","s","R","e","g","i","o","n">>), "") >>

\* predicates the parser refuses, with the error each one raises
BadPool ==
    << Predicate(<<"u","n","k","n","o","w","n","F","i","e","l","d","=","1">>, <<"u","n","k","n","o","w","n","F","i","e","l","d">>, <<"=">>, PyStr(<<>>), "InvalidQueryParameter"),
       Predicate(<<"m","a","l","e","C","a","s","e","s","=","1">>, <<"m","a","l","e","C","a","s","e","s">>, <<"=">>, PyStr(<<>>), "InvalidQueryParameter"),
       Predicate(<<"a","r","e","a","N","a","m","e","=","1","2","3">>, <<"a","r","e","a","N","a","m","e">>, <<"=">>, PyStr(<<>>), "ValueNotAcceptable"),
       Predicate(<<"a","r","e","a","T","y","p","e","=","m","s","o","a">>, <<"a","r","e","a","T","y","p","e">>, <<"=">>, PyStr(<<>>), "KeyError"),
       Predicate(<<"n","e","w","A","d","m","i","s","s","i","o","n","s","=","1",".","5">>, <<"n","e","w","A","d","m","i","s","s","i","o","n","s">>, <<"=">>, PyStr(<<>>), "ValueError"),
       Predicate(<<"d","a","t","e","=","2","0","2","0","-","1","3","-","0","1">>, <<"d","a","t","e">>, <<"=">>, PyStr(<<>>), "ValueError") >>

\* predicates the token pattern matches although they are malformed: no
\* operator, a bare "!", a connector with no predicate after it
MalformedPool ==
    << Predicate(<<"n","e","w","A","d","m","i","s","s","i","o","n","s","1","0","0">>, <<"n","e","w","A","d","m","i","s","s","i","o","n","s">>, <<>>, PyInt(100), ""),
       Predicate(<<"n","e","w","A","d","m","i","s","s","i","o","n","s","!","1","0","0">>, <<"n","e","w","A","d","m","i","s","s","i","o","n","s">>, <<"!">>, PyInt(100), ""),
       Predicate(<<"a","r","e","a","N","a","m","e","=","E","n","g","l","a","n","d",";">>, <<"a","r","e","a","N","a","m","e">>, <<"=">>, PyStr(<<"e","n","g","l","a","n","d">>), ""),
       Predicate(<<"a","r","e","a","N","a","m","e","=","E","n","g","l","a","n","d","|">>, <<"a","r","e","a","N","a","m","e">>, <<"=">>, PyStr(<<"e","n","g","l","a","n","d">>), "") >>

\* n predicates of the pool in a row, from position start on
Window(start, n) == [k \in 1..n |-> GoodPool[((start + k - 2) % Len(GoodPool)) + 1]]

RECURSIVE Join(_, _)
Join(parts, sep) ==
    IF parts = <<>> THEN <<>>
    ELSE IF Len(parts) = 1 THEN Head(parts)
    ELSE Head(parts) \o sep \o Join(Tail(parts), sep)

\* the names of the catalog, in the order of the source
CatalogNames ==
    << <<"a","r","e","a","T","y","p","e">>, <<"d","a","t","e">>, <<"a","r","e","a","N","a","m","e">>, <<"a","r","e","a","C","o","d","e">>, <<"h","a","s","h">>, <<"a","r","e","a","N","a","m","e","L","o","w","e","r">>,
       <<"h","o","s","p","i","t","a","l","C","a","s","e","s">>, <<"n","e","w","A","d","m","i","s","s","i","o","n","s">>, <<"n","e","w","C","a","s","e","s","B","y","P","u","b","l","i","s","h","D","a","t","e">>, <<"m","a","l","e","C","a","s","e","s">>,
       <<"c","u","m","C","a","s","e","s","B","y","P","u","b","l","i","s","h","D","a","t","e","R","a","t","e">>, <<"r","e","l","e","a","s","e">> >>

Quoted(name) == <<"\"">> \o name \o <<"\"">>

\* the structure parameter: none, the mapping {"date":"date","value":m}, or a
\* sequence / mapping of the first k names of the catalog
NoStructure == [kind |-> "none", entries |-> 0, metric |-> <<>>, text |-> <<>>]
ValueStructure(m) ==
    [kind |-> "value", entries |-> 2, metric |-> m,
     text |-> <<"{","\"","d","a","t","e","\"",":","\"","d","a","t","e","\"",",","\"","v","a","l","u","e","\"",":">> \o Quoted(m) \o <<"}">>]
ListStructure(k) ==
    [kind |-> "list", entries |-> k, metric |-> <<>>,
     text |-> <<"[">> \o Join([i \in 1..k |-> Quoted(CatalogNames[i])], <<",">>) \o <<"]">>]
DictStructure(k) ==
    [kind |-> "dict", entries |-> k, metric |-> <<>>,
     text |-> <<"{">> \o Join([i \in 1..k |-> Quoted(CatalogNames[i]) \o <<":">>
                                             \o Quoted(CatalogNames[i])], <<",">>) \o <<"}">>]

\* a sequence with a name that is not in the catalog
UnknownNameStructure ==
    [kind |-> "list", entries |-> 1, metric |-> <<>>, text |-> <<"[","\"","u","n","k","n","o","w","n","M","e","t","r","i","c","\"","]">>]

\* a sequence of names, and a mapping of labels to names, with what
\* json.loads makes of them
ListOf(names) ==
    [kind |-> "list", entries |-> Len(names), metric |-> <<>>,
     text |-> <<"[">> \o Join([i \in 1..Len(names) |-> Quoted(names[i])], <<",">>) \o <<"]">>,
     labels |-> names, values |-> names]
DictOf(labels, names) ==
    [kind |-> "dict", entries |-> Len(names), metric |-> <<>>,
     text |-> <<"{">> \o Join([i \in 1..Len(names) |-> Quoted(labels[i]) \o <<":">>
                                                       \o Quoted(names[i])], <<",">>) \o <<"}">>,
     labels |-> labels, values |-> names]

\* name=value for a parameter that is given
Parameter(name, value) == IF value = None THEN <<>> ELSE <<name \o <<"=">> \o value[1]>>

\* the request: its method, the query of its url, req.params, and the release
\* timestamp the function is called with
Request(method, predicates, connector, latestBy, structure, format, page, timestamp) ==
    [method |-> method,
     url_query |-> Join(  Parameter(<<"f","i","l","t","e","r","s">>,
                                    IF predicates = <<>> THEN None
                                    ELSE Some(Join([k \in 1..Len(predicates) |-> predicates[k].text],
                                                   connector)))
                       \o Parameter(<<"l","a","t","e","s","t","B","y">>, latestBy)
                       \o Parameter(<<"s","t","r","u","c","t","u","r","e">>,
                                    IF structure.kind = "none" THEN None ELSE Some(structure.text))
                       \o Parameter(<<"f","o","r","m","a","t">>, format)
                       \o Parameter(<<"p","a","g","e">>, page),
                       <<"&">>),
     params |-> [page |-> page, latestBy |-> latestBy],
     timestamp |-> timestamp,
     predicates |-> predicates,
     connector |-> connector,
     structure |-> structure,
     format |-> format]

Methods == {"GET", "HEAD"}
Connectors == {<<";">>, <<"|">>}
Formats == {None, Some(<<"j","s","o","n">>), Some(<<"c","s","v">>), Some(<<"x","m","l">>)}
LatestBys == {None, Some(<<"n","e","w","A","d","m","i","s","s","i","o","n","s">>), Some(<<"u","n","k","n","o","w","n","M","e","t","r","i","c">>)}
Pages == {None, Some(<<"2">>), Some(<<>>), Some(<<"1","0","0","0">>)}

\* lastUpdateTimestamp: six digits of fraction, seven ending in 5 (as in the
\* tests), seven ending in neither 0 nor 5
Timestamp == <<"2","0","2","3","-","0","5","-","2","5","T","1","6",":","4","8",":","0","9",".","9","1","6","1","3","1","Z">>
Timestamps == {Timestamp, <<"2","0","2","3","-","0","5","-","2","5","T","1","6",":","4","8",":","0","9",".","9","1","6","1","3","1","5","Z">>, <<"2","0","2","3","-","0","5","-","2","5","T","1","6",":","4","8",":","0","9",".","9","1","6","1","3","1","7","Z">>}

\* what the database holds for the filters of a request: nothing; one date of
\* one area; two areas, the second a day behind the first; two areas that
\* hold a metric each; MaxDates dates of one metric, of two, and in two areas
Answers ==
    { <<>>,
      <<Block(10, 1, << <<"n","e","w","A","d","m","i","s","s","i","o","n","s">>, <<"h","o","s","p","i","t","a","l","C","a","s","e","s">> >>)>>,
      <<Block(10, 2, << <<"n","e","w","A","d","m","i","s","s","i","o","n","s">>, <<"h","o","s","p","i","t","a","l","C","a","s","e","s">> >>),
        Block(9, 2, << <<"h","o","s","p","i","t","a","l","C","a","s","e","s">>, <<"n","e","w","A","d","m","i","s","s","i","o","n","s">> >>)>>,
      <<Block(10, 1, << <<"n","e","w","A","d","m","i","s","s","i","o","n","s">> >>), Block(10, 1, << <<"h","o","s","p","i","t","a","l","C","a","s","e","s">> >>)>>,
      <<Block(MaxDates, MaxDates, << <<"n","e","w","A","d","m","i","s","s","i","o","n","s">> >>)>>,
      <<Block(MaxDates, MaxDates, << <<"h","o","s","p","i","t","a","l","C","a","s","e","s">>, <<"n","e","w","A","d","m","i","s","s","i","o","n","s">> >>)>>,
      <<Block(MaxDates, MaxDates, << <<"n","e","w","A","d","m","i","s","s","i","o","n","s">> >>),
        Block(MaxDates, MaxDates, << <<"n","e","w","A","d","m","i","s","s","i","o","n","s">> >>)>> }

\* filters: every run of the pool up to MaxPredicates predicates, and runs
\* that end with a predicate the parser refuses
GoodFilters == {Window(start, n) : start \in 1..Len(GoodPool), n \in 0..MaxPredicates}
BadFilters ==
    {Window(start, n) \o <<BadPool[b]>> : start \in {1, 2}, n \in {0, 1}, b \in 1..Len(BadPool)}
CoreFilters == {Window(1, 1), Window(2, 1), Window(1, 2), Window(2, 2)}

Structures ==
    {NoStructure}
        \cup {ValueStructure(m) : m \in DOMAIN DATA_TYPES}
        \cup {ListStructure(k) : k \in 1..MaxStructureEntries}
        \cup {DictStructure(k) : k \in 1..MaxStructureEntries}

\* the requests the function receives
Requests ==
    {Request(m, f, c, None, NoStructure, None, None, Timestamp) :
        m \in Methods, f \in GoodFilters \cup BadFilters, c \in Connectors}
    \cup
    {Request(m, f, <<";">>, l, s, fo, p, Timestamp) :
        m \in Methods, f \in CoreFilters, l \in LatestBys,
        s \in {NoStructure, ListStructure(1)}, fo \in Formats, p \in Pages}
    \cup
    {Request(m, f, <<";">>, None, s, fo, None, Timestamp) :
        m \in Methods, f \in CoreFilters, s \in Structures, fo \in {None, Some(<<"c","s","v">>)}}
    \cup
    {Request(m, f, <<";">>, None, NoStructure, None, None, t) :
        m \in Methods, f \in CoreFilters, t \in Timestamps}
    \cup
    {Request(m, Window(1, 1) \o <<MalformedPool[b]>>, c, None, NoStructure, None, None, Timestamp) :
        m \in Methods, c \in Connectors, b \in 1..Len(MalformedPool)}
    \cup
    {Request(m, f, <<";">>, l, UnknownNameStructure, None, p, Timestamp) :
        m \in Methods, f \in {Window(1, 1), Window(2, 1), Window(1, 1) \o <<BadPool[1]>>},
        l \in {None, Some(<<"n","e","w","A","d","m","i","s","s","i","o","n","s">>)}, p \in {None, Some(<<"2">>)}}

\* the query strings a caller of QueryParser passes, as the unit tests do
\* the requests the finisher is tried on: both methods, every timestamp
FinisherRequests ==
    {Request(m, f, <<";">>, None, NoStructure, None, None, ts) :
        m \in Methods, f \in {Window(1, 1), Window(1, 2)}, ts \in Timestamps}

\* the structures get_data is tried on: sequences of one and of two metrics,
\* in either order, with identity columns, of identity columns only, with a
\* metric the tables do not hold; mappings, one of them with such a metric
DataStructures ==
    { ListOf(<< <<"n","e","w","A","d","m","i","s","s","i","o","n","s">> >>),
      ListOf(<< <<"n","e","w","A","d","m","i","s","s","i","o","n","s">>, <<"h","o","s","p","i","t","a","l","C","a","s","e","s">> >>),
      ListOf(<< <<"h","o","s","p","i","t","a","l","C","a","s","e","s">>, <<"n","e","w","A","d","m","i","s","s","i","o","n","s">> >>),
      ListOf(<< <<"a","r","e","a","C","o","d","e">>, <<"d","a","t","e">>, <<"n","e","w","A","d","m","i","s","s","i","o","n","s">> >>),
      ListOf(<< <<"a","r","e","a","C","o","d","e">>, <<"d","a","t","e">> >>),
      ListOf(<< <<"n","e","w","A","d","m","i","s","s","i","o","n","s">>, <<"n","e","w","C","a","s","e","s","B","y","P","u","b","l","i","s","h","D","a","t","e">> >>),
      DictOf(<< <<"d","a","t","e">>, <<"v","a","l","u","e">> >>, << <<"d","a","t","e">>, <<"n","e","w","A","d","m","i","s","s","i","o","n","s">> >>),
      DictOf(<< <<"d","a","y">>, <<"a","d","m","i","s","s","i","o","n","s">>, <<"c","a","s","e","s">> >>,
             << <<"d","a","t","e">>, <<"n","e","w","A","d","m","i","s","s","i","o","n","s">>, <<"n","e","w","C","a","s","e","s","B","y","P","u","b","l","i","s","h","D","a","t","e">> >>) }

\* the requests get_data is tried on
DataRequests ==
    {Request(m, Window(1, 2), <<";">>, l, s, fo, p, Timestamp) :
        m \in Methods, l \in {None, Some(<<"n","e","w","A","d","m","i","s","s","i","o","n","s">>)}, s \in DataStructures,
        fo \in {None, Some(<<"c","s","v">>)},
        p \in {None, Some(<<"0">>), Some(<<"1">>), Some(<<"2">>), Some(<<"3">>)}}
    \cup
    {Request(m, Window(2, 2), <<";">>, None, ListOf(<< <<"n","e","w","A","d","m","i","s","s","i","o","n","s">> >>), None, None,
             Timestamp) : m \in Methods}

ParserRequests ==
    {Request("GET", f, c, l, NoStructure, None, p, Timestamp) :
        f \in GoodFilters \cup BadFilters, c \in Connectors,
        l \in {None, Some(<<"n","e","w","A","d","m","i","s","s","i","o","n","s">>)}, p \in {None, Some(<<"2">>)}}
    \cup
    {Request("GET", f, <<";">>, None, s, fo, None, Timestamp) :
        f \in CoreFilters, s \in Structures, fo \in Formats}
    \cup
    {Request("GET", f, <<";">>, l, NoStructure, fo, p, Timestamp) :
        f \in CoreFilters, l \in LatestBys, fo \in Formats, p \in Pages}

---------------------------------------------------------------------------
(* The function app: api = format_response(api_handler) *)

NoRequest == Request("GET", <<>>, <<";">>, None, NoStructure, None, None, Timestamp)
NoHandled ==
    [raised |-> "", code |-> 0, response |-> Payload("str"), raw_query |-> <<>>,
     formatter |-> ""]
NoCall == [name |-> "", found |-> FALSE, raised |-> "", value |-> PyStr(<<>>)]

Init ==
    /\ pc = "idle"
    /\ req = NoRequest
    /\ tokens = NoTokens
    /\ handled = NoHandled
    /\ response = NoResponse
    /\ db = NoDatabase
    /\ called = NoCall

\* the function is invoked with a request
Receive ==
    /\ pc = "idle"
    /\ \E r \in Requests : req' = r
    /\ pc' = "received"
    /\ UNCHANGED <<tokens, handled, response, db, called>>

\* inner awaits api_handler
ApiHandler ==
    /\ pc = "received"
    /\ \E answer \in Answers : \E h \in {api_handler(req, answer)} :
          /\ handled' = [raised |-> h.raised, code |-> h.code, response |-> h.response,
                         raw_query |-> h.raw_query, formatter |-> h.formatter]
          /\ tokens' = h.tokens
          /\ db' = h.db
    /\ pc' = "handled"
    /\ UNCHANGED <<req, response, called>>

\* the rest of inner: the HttpResponse is built from what api_handler returned
Finish ==
    /\ pc = "handled"
    /\ response' = inner(req, handled)
    /\ pc' = "finished"
    /\ UNCHANGED <<req, tokens, handled, db, called>>

\* the invocation is over; the next one starts from nothing
Return ==
    /\ pc = "finished"
    /\ pc' = "idle"
    /\ req' = NoRequest
    /\ tokens' = NoTokens
    /\ handled' = NoHandled
    /\ response' = NoResponse
    /\ db' = NoDatabase
    /\ UNCHANGED called

Next == Receive \/ ApiHandler \/ Finish \/ Return

Spec == Init /\ [][Next]_vars

---------------------------------------------------------------------------
(* QueryParser used on its own, as tests/test_api_handler.py uses it *)

\* tokens = QueryParser(query, self.last_update)
Construct ==
    /\ pc = "idle"
    /\ \E r \in ParserRequests :
          /\ req' = r
          /\ tokens' = QueryParser(r.url_query, r.timestamp)
    /\ pc' = IF tokens'.raised = "" THEN "constructed" ELSE "raised"
    /\ UNCHANGED <<handled, response, db, called>>

\* await tokens.structure()
CallStructure ==
    /\ pc = "constructed"
    /\ \E result \in {extract_structure(tokens.query)} :
          /\ called' = [name |-> "structure", found |-> result.found,
                        raised |-> result.raised, value |-> result.value]
          /\ tokens' = [tokens EXCEPT !.query = result.query]
    /\ UNCHANGED <<pc, req, handled, response, db>>

\* await tokens.formatter()
CallFormatter ==
    /\ pc = "constructed"
    /\ \E result \in {extract_formatter(tokens.query)} :
          /\ called' = [name |-> "formatter", found |-> result.found,
                        raised |-> result.raised, value |-> PyStr(result.value)]
          /\ tokens' = [tokens EXCEPT !.query = result.query]
    /\ UNCHANGED <<pc, req, handled, response, db>>

\* the test is over
Discard ==
    /\ pc \in {"constructed", "raised"}
    /\ pc' = "idle"
    /\ req' = NoRequest
    /\ tokens' = NoTokens
    /\ called' = NoCall
    /\ UNCHANGED <<handled, response, db>>

ParserNext == Construct \/ CallStructure \/ CallFormatter \/ Discard

ParserSpec == Init /\ [][ParserNext]_vars

---------------------------------------------------------------------------
(* get_data on its own, called with a parser object whose structure has been
   awaited to a list or a dict.  The server keeps its table from call to call;
   counted holds the count statements it has executed, open the connections
   the call in hand has left open. *)

DataInit ==
    /\ pc = "idle"
    /\ req = NoRequest
    /\ tokens = NoTokens
    /\ handled = NoHandled
    /\ response = NoResponse
    /\ called = NoCall
    /\ \E table \in Answers :
          db = [connections |-> 0, open |-> 0, statements |-> <<>>, table |-> table,
                counted |-> {}]

\* the format the caller passes for formatter
formatter_of(r) == IF r.format = Some(<<"c","s","v">>) THEN "csv" ELSE "json"

\* get_data(request, tokens, formatter, timestamp) is called and returns or raises
GetData ==
    /\ pc = "idle"
    /\ \E r \in DataRequests :
       \E tkns \in {[QueryParser(unquote_plus(r.url_query), r.timestamp) EXCEPT
                        !.structure = Structure(r.structure.kind, r.structure.labels,
                                                r.structure.values)]} :
       \E data \in {get_data(r, tkns, formatter_of(r), r.timestamp, db.table)} :
          /\ tkns.raised = ""
          /\ req' = r
          /\ tokens' = tkns
          /\ called' = [name |-> "get_data", found |-> TRUE, raised |-> data.raised,
                        value |-> data.payload]
          /\ db' = [connections |-> data.connections, open |-> data.open,
                    statements |-> data.statements, table |-> db.table,
                    counted |-> db.counted \cup
                        {q \in Range(data.statements) : q.template = "count"}]
    /\ pc' = "returned"
    /\ UNCHANGED <<handled, response>>

\* the call is over; the server keeps what it holds
DataReturn ==
    /\ pc = "returned"
    /\ pc' = "idle"
    /\ req' = NoRequest
    /\ tokens' = NoTokens
    /\ called' = NoCall
    /\ db' = [db EXCEPT !.connections = 0, !.open = 0, !.statements = <<>>]
    /\ UNCHANGED <<handled, response>>

DataNext == GetData \/ DataReturn

DataSpec == DataInit /\ [][DataNext]_vars

---------------------------------------------------------------------------
(* The statement get_query builds for a parsed request, put to one long row of
   the partition: called.found tells whether the row is selected *)

SelectRequests ==
    {Request(m, Window(1, n), c, l, NoStructure, None, None, Timestamp) :
        m \in Methods, n \in 1..3, c \in Connectors,
        l \in {None, Some(<<"n","e","w","A","d","m","i","s","s","i","o","n","s">>)}}

Rows(n) ==
    {Row(metric, release_released, metric_released, latest, holds) :
        metric \in BOOLEAN, release_released \in BOOLEAN, metric_released \in BOOLEAN,
        latest \in BOOLEAN, holds \in [1..n -> BOOLEAN]}

Select ==
    /\ pc = "idle"
    /\ \E r \in SelectRequests :
       \E tkns \in {QueryParser(unquote_plus(r.url_query), r.timestamp)} :
       \E query \in {get_query(r, tkns.only_latest_by,
                               get_partition_id(tkns.query_data.area_type[1], r.timestamp),
                               tkns.query_data.query, 1, 1)} :
       \E row \in Rows(Len(r.predicates)) :
          /\ tkns.raised = ""
          /\ req' = r
          /\ tokens' = tkns
          /\ db' = [connections |-> 1, statements |-> <<query>>]
          /\ called' = [name |-> "fetch", found |-> where_selects(query, row),
                        raised |-> "", value |-> row]
    /\ pc' = "returned"
    /\ UNCHANGED <<handled, response>>

SelectReturn ==
    /\ pc = "returned"
    /\ pc' = "idle"
    /\ req' = NoRequest
    /\ tokens' = NoTokens
    /\ called' = NoCall
    /\ db' = NoDatabase
    /\ UNCHANGED <<handled, response>>

SelectNext == Select \/ SelectReturn

SelectSpec == Init /\ [][SelectNext]_vars

---------------------------------------------------------------------------
(* format_response.inner on its own: the decorator finishes whatever tuple the
   function it wraps returns *)

\* the tuples (code, response, raw_query, formatter) of the three return
\* statements of api_handler
HandlerOutcomes ==
    {[raised |-> "", code |-> 200, response |-> Payload(t), raw_query |-> r.url_query,
      formatter |-> f] :
        t \in {"bytes", "str"}, r \in FinisherRequests,
        f \in DOMAIN RESPONSE_TYPE \cup {BoundMethod("extract_formatter")}}
    \cup
    {[raised |-> kind, code |-> except(kind).code, response |-> except(kind).response,
      raw_query |-> r.url_query, formatter |-> f] :
        kind \in APIException \cup {"TypeError", "ValueError"}, r \in FinisherRequests,
        f \in DOMAIN RESPONSE_TYPE \cup {BoundMethod("extract_formatter")}}

\* code, response, raw_query, formatter = await func(req, lastUpdateTimestamp)
AwaitFunc ==
    /\ pc = "idle"
    /\ \E r \in FinisherRequests : \E h \in HandlerOutcomes :
          /\ h.raw_query = r.url_query
          /\ req' = r
          /\ handled' = h
    /\ pc' = "handled"
    /\ UNCHANGED <<tokens, response, db, called>>

FinisherNext == AwaitFunc \/ Finish \/ Return

FinisherSpec == Init /\ [][FinisherNext]_vars

---------------------------------------------------------------------------
(* Properties *)

\* what the request in hand carries
GoodPredicates == \A k \in 1..Len(req.predicates) : req.predicates[k].raises = ""
HasAreaType == \E k \in 1..Len(req.predicates) : req.predicates[k].name = <<"a","r","e","a","T","y","p","e">>
ValidLatestBy ==
    req.params.latestBy = None \/ req.params.latestBy[1] \in DATE_PARAMS \cup DOMAIN DATA_TYPES
ValidPage ==
    req.params.page = None
        \/ (req.params.page[1] # <<>> /\ AllIn(req.params.page[1], Digits))
AcceptedFilters == GoodPredicates /\ Len(req.predicates) \in 1..5

ValidationErrors == APIException \ {"NotAvailable"}

\* C1: a request rejected with a validation error (a typed error other than
\* the no-content one) has opened no connection and executed no statement.
C1_RejectedRequestTouchesNoDatabase ==
    (pc \in {"handled", "finished"} /\ handled.raised \in ValidationErrors)
        => (db.connections = 0 /\ db.statements = <<>>)

C1_Witness ==
    /\ pc = "finished"
    /\ handled.raised = "MissingFilter"
    /\ db.connections = 0

\* C2: every typed error finishes the request with the status of its kind,
\* as the status of the response and as status_code of the envelope.
C2_CanonicalStatus ==
    (pc = "finished" /\ handled.raised \in APIException)
        => /\ response.raised = ""
           /\ response.status_code = APIExceptionCode[handled.raised]
           /\ handled.response.status_code = APIExceptionCode[handled.raised]

\* C3: an error that is no typed error ends a GET request with status 500
\* and the one generic body.
C3_GenericInternalError ==
    (pc = "finished" /\ req.method = "GET"
        /\ handled.raised # "" /\ handled.raised \notin APIException)
        => /\ response.raised = ""
           /\ response.status_code = 500
           /\ response.body = generic_exception.response

\* C4: a request whose predicates parse and name no areaType (here with no
\* latestBy and no page) finishes with MissingFilter, whatever its structure
\* and format are.
C4_MissingFilter ==
    (pc = "finished" /\ AcceptedFilters /\ ~HasAreaType
        /\ req.params.latestBy = None /\ req.params.page = None)
        => /\ handled.raised = "MissingFilter"
           /\ response.raised = ""
           /\ response.status_code = 400

\* C5: a request with page and latestBy, its filters and its latestBy valid,
\* finishes with BadPagination and status 400.
C5_BadPagination ==
    (pc = "finished" /\ AcceptedFilters /\ ValidLatestBy
        /\ req.params.latestBy # None /\ req.params.page # None)
        => /\ handled.raised = "BadPagination"
           /\ response.raised = ""
           /\ response.status_code = 400

\* C6: a valid request with latestBy and no page is rejected with
\* InvalidFormat exactly when its format is csv.
C6_InvalidFormatOnlyForCsv ==
    (pc \in {"handled", "finished"} /\ AcceptedFilters /\ HasAreaType /\ ValidLatestBy
        /\ req.params.latestBy # None /\ req.params.page = None)
        => (handled.raised = "InvalidFormat" <=> req.format = Some(<<"c","s","v">>))

\* C7: of a filter of n well-formed predicates with catalogued identifiers the
\* parser refuses n = 0 with InvalidQuery, accepts n from 1 to 5 and refuses
\* n >= 6 with ExceedsMaxParameters; accepted query data hold at most 5 arguments.
C7_PredicateCount ==
    /\ (pc \in {"constructed", "raised"} /\ GoodPredicates /\ ValidLatestBy /\ ValidPage)
        => /\ Len(req.predicates) = 0 => tokens.raised = "InvalidQuery"
           /\ Len(req.predicates) \in 1..5 => tokens.raised = ""
           /\ Len(req.predicates) >= 6 => tokens.raised = "ExceedsMaxParameters"
    /\ pc = "constructed" => Len(tokens.query_data.arguments) <= 5

C7_Witness ==
    /\ pc = "raised"
    /\ GoodPredicates
    /\ Len(req.predicates) = 6
    /\ tokens.raised = "ExceedsMaxParameters"

\* C8: tokens.structure() accepts a structure parameter of at most 8
\* catalogued entries, and refuses one of 9 or more with StructureTooLarge.
C8_StructureSize ==
    (called.name = "structure" /\ called.found /\ req.structure.kind \in {"list", "dict"})
        => IF req.structure.entries <= MAX_STRUCTURE_LENGTH
           THEN called.raised = ""
           ELSE called.raised = "StructureTooLarge"

\* C9: for every metric m of the catalog, tokens.structure() of a query with
\* structure {"date":"date","value":m} returns a mapping.
C9_ValueStructureParses ==
    (called.name = "structure" /\ called.found /\ req.structure.kind = "value")
        => (called.raised = "" /\ called.value.t = "dict")

\* the k-th predicate compiled with the placeholder numbered k + 1
Compiled(k) ==
    param_fn(req.predicates[k].name) \o <<" ">> \o req.predicates[k].operator
        \o <<" ", "$">> \o IntToStr(k + 1)

\* the fragment of the request's filters: its predicates joined by the words
\* of the connector
Fragment ==
    <<"A","N","D"," ">> \o Join([k \in 1..Len(req.predicates) |-> Compiled(k)],
                     IF req.connector = <<";">> THEN <<" ","A","N","D"," ">> ELSE <<" ","O","R"," ">>)

\* C10: the k-th of n accepted predicates is compiled with placeholder k + 1;
\* the arguments are the n coerced values in filter order; the parameters of
\* the statement are the metric names followed by the arguments.
C10_PlaceholdersAndArguments ==
    (pc = "constructed" /\ AcceptedFilters)
        => /\ tokens.query_data.query = Fragment
           /\ Len(tokens.query_data.arguments) = Len(req.predicates)
           /\ \A k \in 1..Len(req.predicates) :
                 tokens.query_data.arguments[k] = req.predicates[k].argument
           /\ \A metrics \in {<<>>, <<<<"n","e","w","A","d","m","i","s","s","i","o","n","s">>>>, <<<<"n","e","w","A","d","m","i","s","s","i","o","n","s">>, <<"h","o","s","p","i","t","a","l","C","a","s","e","s">>>>} :
                 /\ Len(db_args(metrics, tokens.query_data.arguments)) = Len(req.predicates) + 1
                 /\ db_args(metrics, tokens.query_data.arguments)[1] = metrics
                 /\ \A k \in 1..Len(req.predicates) :
                       db_args(metrics, tokens.query_data.arguments)[k + 1]
                           = req.predicates[k].argument

C10_Witness ==
    /\ pc = "constructed"
    /\ Len(req.predicates) = 5
    /\ \E k \in 1..5 : req.predicates[k].name = <<"a","r","e","a","N","a","m","e">>
    /\ \E k \in 1..5 : req.predicates[k].name = <<"a","r","e","a","C","o","d","e">>
    /\ \E k \in 1..5 : req.predicates[k].text = <<"a","r","e","a","T","y","p","e","=","N","H","S","R","e","g","i","o","n">>
    /\ tokens.query_data.query = Fragment

\* the name of the format the request asks for, json when it names none
RequestedFormat ==
    IF req.format = None THEN "json"
    ELSE IF req.format = Some(<<"c","s","v">>) THEN "csv"
    ELSE IF req.format = Some(<<"x","m","l">>) THEN "xml"
    ELSE "json"

\* C11: after a query is parsed, tokens.formatter is the format the query
\* names (json when it names none) and tokens.raw_filters holds the triple
\* (identifier, operator, value) of every predicate, in filter order, the
\* value as it was written.
C11_ParserAttributes ==
    pc = "constructed"
        => /\ tokens.formatter = RequestedFormat
           /\ Len(tokens.raw_filters) = Len(req.predicates)
           /\ \A k \in 1..Len(req.predicates) :
                 /\ tokens.raw_filters[k].identifier = req.predicates[k].name
                 /\ tokens.raw_filters[k].operator = req.predicates[k].operator
                 /\ tokens.raw_filters[k].identifier \o tokens.raw_filters[k].operator
                        \o tokens.raw_filters[k].value = req.predicates[k].text

\* the three headers inner adds to a response it caches
CachingHeaders == {"Cache-Control", "Content-Location", "Last-Modified"}

\* C12: the response that finishes a HEAD request has no body; its status is
\* 204 when the status of the handler is below 400 and the status of the
\* handler when it is 400 or above.
C12_HeadResponse ==
    (pc = "finished" /\ req.method = "HEAD" /\ response.raised = "")
        => /\ response.body = Payload("none")
           /\ handled.code < 400 => response.status_code = 204
           /\ handled.code >= 400 => response.status_code = handled.code

C12_Witness ==
    /\ pc = "finished"
    /\ req.method = "HEAD"
    /\ handled.raised = ""
    /\ handled.code = 200
    /\ response.raised = ""
    /\ response.status_code = 204

\* C14: a response carries Cache-Control, Content-Location and Last-Modified
\* when the status of the handler is below 400, and none of the three when it
\* is 400 or above, for GET and for HEAD.
C14_CachingHeaders ==
    (pc = "finished" /\ response.raised = "")
        => IF handled.code < 400
           THEN CachingHeaders \subseteq response.headers
           ELSE CachingHeaders \cap response.headers = {}

C14_Witness ==
    /\ pc = "finished"
    /\ req.method = "GET"
    /\ handled.raised = "NotAvailable"
    /\ response.raised = ""
    /\ response.status_code = 204
    /\ CachingHeaders \subseteq response.headers

DefaultPage ==
    /\ pc = "returned"
    /\ req.method = "GET"
    /\ req.params.latestBy = None
    /\ called.raised = ""

C16_PageOverflow ==
    (pc = "finished" /\ req.method = "GET" /\ AcceptedFilters /\ HasAreaType
        /\ req.params.latestBy = None /\ req.params.page = Some(<<"1","0","0","0">>))
        => /\ handled.raised = "NotAvailable"
           /\ response.raised = ""
           /\ response.status_code = 204

\* the requested names that are no identity columns, in declared order
RequestedMetrics ==
    SelectSeq(tokens.structure.values, LAMBDA m : m \notin Range(base_metrics))

\* what the call in hand asked for: its page, the rows the server counts for
\* it, and the pages they make when nMetrics is the number of requested names
\* that are no identity columns
PageAsked == IF tokens.page_number = None THEN 1 ELSE tokens.page_number[1]
RowsCounted == DBQueries_count(db.table, Range(RequestedMetrics))
TotalPages ==
    (RowsCounted + MAX_ITEMS_PER_RESPONSE * Len(RequestedMetrics) - 1)
        \div (MAX_ITEMS_PER_RESPONSE * Len(RequestedMetrics))

\* link is a url that ends with page=k
EndsWithPage(link, k) ==
    /\ link # None
    /\ Len(link[1]) >= Len(<<"&","p","a","g","e","=">> \o IntToStr(k))
    /\ SubSeq(link[1], Len(link[1]) - Len(<<"&","p","a","g","e","=">> \o IntToStr(k)) + 1, Len(link[1]))
          = <<"&","p","a","g","e","=">> \o IntToStr(k)

AreasWith(metric) ==
    {k \in 1..Len(db.table) : db.table[k].n > 0 /\ metric \in Range(db.table[k].metrics)}

Connected == pc = "returned" /\ db.connections > 0

StructureErrors == {"InvalidStructure", "InvalidStructureParameter", "StructureTooLarge"}

\* C23: the structure is validated before the filters are extracted and before
\* the pagination guard: a request with an invalid structure and an invalid
\* filter, or no areaType, or latestBy together with page, is rejected with
\* the error of the structure.
C23_StructureErrorFirst ==
    (pc = "finished" /\ req.structure = UnknownNameStructure
        /\ (\/ ~GoodPredicates
            \/ ~HasAreaType
            \/ (req.params.latestBy # None /\ req.params.page # None)))
        => handled.raised \in StructureErrors

CoercionErrors == {"InvalidQueryParameter", "ValueNotAcceptable", "IncorrectQueryValueType"}

\* C25: coercing a filter predicate fails in three ways only, all typed errors:
\* InvalidQueryParameter, ValueNotAcceptable, IncorrectQueryValueType; a value
\* that matches the pattern of its type and cannot be parsed gives the last.
C25_CoercionErrors ==
    (pc = "raised" /\ called.name = "" /\ ~GoodPredicates /\ req.params.latestBy = None)
        => tokens.raised \in CoercionErrors

\* the operators and the connectors of a filter fragment
Operators == { <<"=">>, <<"!","=">>, <<"<">>, <<">">>, <<"<","=">>, <<">","=">> }
ConnectorWords == { <<"A","N","D">>, <<"O","R">> }

\* the fragment is AND p1 c1 p2 ... pn: groups of a connector, a name, an
\* operator and the placeholder of the group's number
WellFormed(words) ==
    /\ Len(words) > 0
    /\ Len(words) % 4 = 0
    /\ words[1] = <<"A","N","D">>
    /\ \A g \in 0..((Len(words) \div 4) - 1) :
          /\ words[4 * g + 1] \in ConnectorWords
          /\ words[4 * g + 2] # <<>>
          /\ words[4 * g + 3] \in Operators
          /\ words[4 * g + 4] = <<"$">> \o IntToStr(g + 2)

\* C26: every filter fragment the parser accepts is well formed: every
\* predicate has an operator of {=, !=, <, >, <=, >=}, every connector is AND
\* or OR and stands between two predicates.
C26_WellFormedFragment ==
    (pc = "finished" /\ tokens.raised = "")
        => WellFormed(Split(tokens.query_data.query, <<" ">>))

\* C27: every request that is finished has yielded one HTTP response with a
\* status code; no error leaves the handler and the finisher.
C27_OneResponse ==
    pc = "finished"
        => /\ response.raised = ""
           /\ response.status_code \in {200, 204, 500} \cup {APIExceptionCode[e] : e \in APIException}

====
